---- MODULE Spec2Model ----
(***************************************************************************)
(* Model of the helper components of the azureml-pysdk2 template:          *)
(*   - the data reference resolver (core/_aml.py: get_aml_uri, DataSchema),*)
(*   - the environment reconciler (core/build_/__aml_env.py:               *)
(*     EnvironmentSchema, increment_version, Env),                         *)
(*   - the info-file generator (core/build_/__gen_metafile.py),            *)
(*   - the blob container helpers (core/_blob.py) and get_last_n_days      *)
(*     (core/utils.py).                                                    *)
(* Python strings are sequences of one-character strings; Python values    *)
(* are tagged records (PyVal).  Each component has its own specification   *)
(* (SpecUri, SpecData, SpecCmp, SpecEnv, SpecVer, SpecInfo, SpecGuess,     *)
(* SpecDays, SpecBlob) over the                                            *)
(* shared variables; Spec is their union.                                  *)
(***************************************************************************)
EXTENDS Integers, Sequences, FiniteSets, TLC

VARIABLES
    component,   \* which component this behaviour exercises
    short_uri,   \* uri: the Short Reference handed to the resolvers
    ambient,     \* uri: ambient identifiers (client attributes / os.environ)
    ds_res,      \* uri: result of the latest DataSchema.__get_ds_uri call
    ds_prev,     \* uri: result of the call before that
    aml_res,     \* uri: result of the latest get_aml_uri call
    aml_prev,    \* uri: result of the call before that
    schema,      \* data: the DataSchema object (default_value, data_type, description)
    local_paths, \* data: the paths that exist on the local filesystem
    call,        \* data: the latest call on the schema and its arguments
    res,         \* data: what that call returned or raised
    steps,       \* data: the internal steps that call went through, in order
    cmp_self,    \* cmp: the manifest compare/is_equal is called on
    cmp_other,   \* cmp: the manifest it is compared with
    cmp_diff,    \* cmp: the diff returned by self.compare(other)
    cmp_equal,   \* cmp: "none" before the call, then "true"/"false" from self.is_equal(other)
    cmp_rev,     \* cmp: the diff and the verdict of other.compare(self), other.is_equal(self)
    registry,    \* env: what the remote registry answers when environments are listed
    conda_file,  \* env: the local manifest file (whether it exists, and its content)
    env_obj,     \* env: the Env object (env_name, conda_file_path) once constructed
    env_args,    \* env: the arguments of the get_create_or_update call
    listed,      \* env: number of environments.list calls made
    pushed,      \* env: the definitions passed to environments.create_or_update, in order
    env_ret,     \* env: what the latest Env call returned or raised
    ver_in,      \* ver: the version string handed to increment_version
    ver_inc,     \* ver: the increment argument of the call
    ver_ts,      \* ver: the timestamp digits the clock gave during the call
    ver_out,     \* ver: what increment_version returned or raised
    git_env,     \* info: what the three git commands answer
    fs,          \* info: kind of each path of the filesystem (absent, file, dir)
    info_args,   \* info: the arguments of the latest call (save_at, kwargs)
    git_info,    \* info: the mapping get_git_config returned
    info_ret,    \* info: what the latest call returned or raised
    written,     \* info: the files written, in order
    guess_arg,   \* guess: the value handed to DataSchema.__guess_dtype
    guess_out,   \* guess: "not_run", then the type it returned ("None" for None)
    day_files,   \* days: the files the recursive glob lists, in its order
    day_args,    \* days: the days and freq arguments of get_last_n_days
    day_out,     \* days: the ranking and the files read, or what was raised
    blob_listing,   \* blob: the names of the blobs of the container, as listed
    blob_before,    \* blob: the local files before the call
    blob_local,     \* blob: the local files (path, content)
    blob_environ,   \* blob: whether the SAS url variable of the container is set
    blob_call,      \* blob: the arguments of the call
    blob_ret,       \* blob: the operation called and whether it returned or raised
    blob_downloads  \* blob: the download_blob calls made (blob, save_at), in order

uriVars == <<short_uri, ambient, ds_res, ds_prev, aml_res, aml_prev>>
dataVars == <<schema, local_paths, call, res, steps>>
cmpVars == <<cmp_self, cmp_other, cmp_diff, cmp_equal, cmp_rev>>
envVars == <<registry, conda_file, env_obj, env_args, listed, pushed, env_ret>>
verVars == <<ver_in, ver_inc, ver_ts, ver_out>>
infoVars == <<git_env, fs, info_args, git_info, info_ret, written>>
guessVars == <<guess_arg, guess_out>>
daysVars == <<day_files, day_args, day_out>>
blobVars == <<blob_listing, blob_before, blob_local, blob_environ, blob_call, blob_ret, blob_downloads>>
vars == <<component, uriVars, dataVars, cmpVars, envVars, verVars, infoVars, guessVars, daysVars,
          blobVars>>

(***************************************************************************)
(* Bounds of the model.                                                    *)
(***************************************************************************)
MaxRefLen == 4
MaxDeps == 2
MaxVerLen == 5
MaxTailLen == 2
MaxDayFiles == 2
MaxRequested == 2

(***************************************************************************)
(* Python string helpers.                                                  *)
(***************************************************************************)
Contains(s, c) == \E i \in 1..Len(s) : s[i] = c

\* str.index(c), 1-based; only used where c occurs in s
Index(s, c) == CHOOSE i \in 1..Len(s) : s[i] = c /\ \A j \in 1..(i - 1) : s[j] # c

StartsWith(s, p) == Len(s) >= Len(p) /\ SubSeq(s, 1, Len(p)) = p

RECURSIVE Split(_, _)
\* str.split(sep) for a one-character separator
Split(s, sep) ==
    IF ~Contains(s, sep) THEN <<s>>
    ELSE LET i == Index(s, sep)
         IN  <<SubSeq(s, 1, i - 1)>> \o Split(SubSeq(s, i + 1, Len(s)), sep)

Whitespace == {" ", "\n"}

RECURSIVE LStrip(_)
LStrip(s) == IF s # <<>> /\ Head(s) \in Whitespace THEN LStrip(Tail(s)) ELSE s

RECURSIVE RStrip(_)
RStrip(s) ==
    IF s # <<>> /\ s[Len(s)] \in Whitespace THEN RStrip(SubSeq(s, 1, Len(s) - 1)) ELSE s

\* str.strip()
Strip(s) == RStrip(LStrip(s))

RECURSIVE StringsUpTo(_, _)
\* all strings over alphabet of length at most n
StringsUpTo(alphabet, n) ==
    IF n = 0 THEN {<<>>}
    ELSE LET shorter == StringsUpTo(alphabet, n - 1)
         IN  shorter \cup {Append(s, c) : s \in {t \in shorter : Len(t) = n - 1}, c \in alphabet}

(***************************************************************************)
(* Results of a call: a returned value or a raised exception.              *)
(***************************************************************************)
Ok(v) == [ok |-> TRUE, val |-> v, err |-> "none"]
Raise(e) == [ok |-> FALSE, val |-> <<>>, err |-> e]
NotRun == [ok |-> FALSE, val |-> <<>>, err |-> "not_run"]

(***************************************************************************)
(* The Resolved URI template (core/_aml.py:19 and :124).                   *)
(***************************************************************************)
URI_SUBS == <<"a", "z", "u", "r", "e", "m", "l", ":", "/", "/", "s", "u", "b", "s", "c", "r", "i", "p", "t", "i", "o", "n", "s", "/">>
URI_RG == <<"/", "r", "e", "s", "o", "u", "r", "c", "e", "g", "r", "o", "u", "p", "s", "/">>
URI_WS == <<"/", "w", "o", "r", "k", "s", "p", "a", "c", "e", "s", "/">>
URI_DS == <<"/", "d", "a", "t", "a", "s", "t", "o", "r", "e", "s", "/">>
URI_PATHS == <<"/", "p", "a", "t", "h", "s", "/">>

UriTemplate(subs, rg, ws, ds, pth) ==
    URI_SUBS \o subs \o URI_RG \o rg \o URI_WS \o ws \o URI_DS \o ds \o URI_PATHS \o pth

(***************************************************************************)
(* get_aml_uri (core/_aml.py:14-31): reads os.environ.                     *)
(***************************************************************************)
get_aml_uri(environ, short_path) ==
    LET parts == Split(short_path, ":")
    IN  IF Len(parts) < 2 THEN Raise("IndexError")
        ELSE LET ds_name == Strip(parts[1])
                 stripped == Strip(parts[2])
                 path_on_ds == IF StartsWith(stripped, <<"/">>) THEN Tail(stripped) ELSE stripped
             IN  IF ~environ.set THEN Raise("KeyError")
                 ELSE Ok(UriTemplate(environ.subs, environ.rg, environ.ws, ds_name, path_on_ds))

(***************************************************************************)
(* DataSchema.__get_ds_uri (core/_aml.py:104-127): reads the client.       *)
(***************************************************************************)
\* lines 115-119: drop the character right after the first ':' when it is '/'
DropSlashAfterColon_NoDrop(short) == short

DropSlashAfterColon(short) ==
    LET ind == Index(short, ":")
    IN  IF Len(short) # ind /\ short[ind + 1] = "/"
        THEN SubSeq(short, 1, ind) \o SubSeq(short, ind + 2, Len(short))
        ELSE short

get_ds_uri(client, short) ==
    IF ~Contains(short, ":") THEN Raise("ValueError")
    ELSE LET fixed == DropSlashAfterColon(short)
             ds_name == Split(fixed, ":")[1]
             data_path == Split(fixed, ":")[2]
         IN  Ok(UriTemplate(client.subs, client.rg, client.ws, ds_name, data_path))

(***************************************************************************)
(* Python values: None, bool, int, float (in hundredths) and str.          *)
(***************************************************************************)
PyNone == [t |-> "none", b |-> FALSE, n |-> 0, s |-> <<>>]
PyBool(x) == [t |-> "bool", b |-> x, n |-> 0, s |-> <<>>]
PyInt(k) == [t |-> "int", b |-> FALSE, n |-> k, s |-> <<>>]
PyFloat(h) == [t |-> "float", b |-> FALSE, n |-> h, s |-> <<>>]
PyStr(x) == [t |-> "str", b |-> FALSE, n |-> 0, s |-> x]

\* bool(v)
Truthy(v) ==
    CASE v.t = "none" -> FALSE
      [] v.t = "bool" -> v.b
      [] v.t \in {"int", "float"} -> v.n # 0
      [] v.t = "str" -> v.s # <<>>

\* a or b
PyOr(a, b) == IF Truthy(a) THEN a ELSE b

SeqToSet(q) == {q[i] : i \in 1..Len(q)}

(***************************************************************************)
(* DataSchema (core/_aml.py:34-270).  Data types and modes are enumeration *)
(* tokens; "None" stands for Python's None among them.                     *)
(***************************************************************************)
IO_MODES_InputForBoth(direction) == <<"ro_mount", "download", "direct", "rw_mount">>

IO_MODES(direction) ==
    IF direction = "INPUT" THEN <<"ro_mount", "download", "direct", "rw_mount">>
    ELSE <<"rw_mount", "upload", "direct">>

INPUTS ==
    {"uri_folder", "uri_file", "mltable", "mlflow_model", "custom_model",
     "integer", "number", "string", "boolean"}

P_azureml == <<"a", "z", "u", "r", "e", "m", "l", ":">>
P_https == <<"h", "t", "t", "p", "s", ":", "/", "/">>
P_http == <<"h", "t", "t", "p", ":", "/", "/">>
P_wasbs == <<"w", "a", "s", "b", "s", ":", "/", "/">>
P_abfss == <<"a", "b", "f", "s", "s", ":", "/", "/">>
P_adl == <<"a", "d", "l", ":", "/", "/">>

has_uri_prefix(value) ==
    \E prefix \in {P_azureml, P_https, P_http, P_wasbs, P_abfss, P_adl} :
        StartsWith(value, prefix)

\* Path(path).is_file() or .is_dir(); Path() of a non-string raises TypeError,
\* which is caught; Path("") is the current directory
is_local_path(paths, value) ==
    value.t = "str" /\ (value.s = <<>> \/ value.s \in paths)

value2uri_ColonFirst(client, paths, value) ==
    IF value.t = "str" /\ Contains(value.s, ":") THEN PyStr(get_ds_uri(client, value.s).val)
    ELSE IF value.t = "str" /\ has_uri_prefix(value.s) THEN value
    ELSE IF is_local_path(paths, value) THEN value
    ELSE PyNone

\* DataSchema.__value2uri
value2uri(client, paths, value) ==
    IF value.t = "str" /\ has_uri_prefix(value.s) THEN value
    ELSE IF value.t = "str" /\ Contains(value.s, ":") THEN PyStr(get_ds_uri(client, value.s).val)
    ELSE IF is_local_path(paths, value) THEN value
    ELSE PyNone

guess_dtype(value) ==
    IF value.t = "bool" THEN "boolean"
    ELSE IF value.t = "str" /\ StartsWith(value.s, P_azureml)
         THEN IF Contains(value.s, ".") THEN "uri_file" ELSE "uri_folder"
    ELSE IF value.t = "str" THEN "string"
    ELSE IF value.t = "float" THEN "number"
    ELSE IF value.t = "int" THEN "integer"
    ELSE "None"

NoIO == [io |-> "none", path |-> PyNone, type |-> "None", mode |-> "None", description |-> PyNone]
DataOk(io) == [ok |-> TRUE, err |-> "none", allowed |-> <<>>, io |-> io]
DataRaise(e, allowed) == [ok |-> FALSE, err |-> e, allowed |-> allowed, io |-> NoIO]
DataNotRun == DataRaise("not_run", <<>>)

NoSchema == [built |-> FALSE, default_value |-> PyNone, data_type |-> "None", description |-> PyNone]

\* DataSchema.__init__ and __validate: the object exists only if the assert passes
DataSchema_init_NoValidate(data_type, default_value, description) ==
    [res |-> DataOk(NoIO),
     schema |-> [built |-> TRUE, default_value |-> default_value,
                 data_type |-> data_type, description |-> description]]

DataSchema_init(data_type, default_value, description) ==
    IF data_type \in INPUTS
    THEN [res |-> DataOk(NoIO),
          schema |-> [built |-> TRUE, default_value |-> default_value,
                      data_type |-> data_type, description |-> description]]
    ELSE [res |-> DataRaise("AssertionError", <<>>), schema |-> NoSchema]

\* one internal step of a conversion: the function called, its argument and
\* what it returned (a value, or a data type)
StepOf(fn, arg, out, type) == [fn |-> fn, arg |-> arg, out |-> out, type |-> type]

has_no_value_Never(self, value) == FALSE

\* "self.default_value is None and value is None" (lines 139, 238, 263)
has_no_value(self, value) == self.default_value = PyNone /\ value = PyNone

\* DataSchema.__to_aml: returns the Input/Output, the schema as it is left and
\* the steps taken
to_aml(self, client, paths, as_, value, mode) ==
    IF has_no_value(self, value)
    THEN [res |-> DataRaise("no_value", <<>>), schema |-> self, steps |-> <<>>]
    ELSE LET chosen == PyOr(value, self.default_value)
             path == value2uri(client, paths, chosen)
             dtype == IF self.data_type = "None" THEN guess_dtype(path) ELSE self.data_type
             mode1 == IF mode \in {"None", ""}
                      THEN (IF as_ = "input" THEN IO_MODES("INPUT")[1] ELSE IO_MODES("OUTPUT")[1])
                      ELSE mode
             io == IF as_ = "input" THEN "Input" ELSE "Output"
         IN  [res |-> DataOk([io |-> io, path |-> path, type |-> dtype, mode |-> mode1,
                              description |-> self.description]),
              schema |-> [self EXCEPT !.data_type = dtype],
              steps |-> <<StepOf("value2uri", chosen, path, "None")>>
                        \o (IF self.data_type = "None"
                            THEN <<StepOf("guess_dtype", path, PyNone, dtype)>> ELSE <<>>)
                        \o <<StepOf(io, path, PyNone, dtype)>>]

as_input(self, client, paths, value, mode) ==
    IF has_no_value(self, value)
    THEN [res |-> DataRaise("no_value", <<>>), schema |-> self, steps |-> <<>>]
    ELSE IF mode \notin SeqToSet(IO_MODES("INPUT"))
    THEN [res |-> DataRaise("unsupported_mode", IO_MODES("INPUT")), schema |-> self, steps |-> <<>>]
    ELSE to_aml(self, client, paths, "input", value, mode)

as_output(self, client, paths, value, mode) ==
    IF has_no_value(self, value)
    THEN [res |-> DataRaise("no_value", <<>>), schema |-> self, steps |-> <<>>]
    ELSE IF mode \notin SeqToSet(IO_MODES("OUTPUT"))
    THEN [res |-> DataRaise("unsupported_mode", IO_MODES("OUTPUT")), schema |-> self, steps |-> <<>>]
    ELSE to_aml(self, client, paths, "output", value, mode)

(***************************************************************************)
(* Component "data": one DataSchema, constructed and then converted; its   *)
(* input domain.                                                           *)
(***************************************************************************)
V_file == <<"a", "z", "u", "r", "e", "m", "l", ":", "f", "o", "o", "/", "b", "a", "r", ".", "c", "s", "v">>
V_folder == <<"a", "z", "u", "r", "e", "m", "l", ":", "f", "o", "o", "/", "b", "a", "r">>
V_dir == <<"d">>

\* V_dir exists on the local filesystem, "x" does not
Values ==
    {PyNone, PyBool(TRUE), PyBool(FALSE), PyInt(0), PyInt(7), PyFloat(314),
     PyStr(<<>>), PyStr(<<"s", ":", "/", "p">>), PyStr(<<"s", ":", "p", ":", "q">>),
     PyStr(<<"a", "d", "l", ":", "/", "/", "h", ":", "1">>),
     PyStr(V_file), PyStr(V_folder), PyStr(V_dir), PyStr(<<"x">>)}

DataTypeArgs == {"uri_folder", "uri_file", "integer", "None", "bogus"}
Modes == {"ro_mount", "direct", "rw_mount", "upload", "bogus"}
Descriptions == {PyStr(<<"c">>)}
DataClient == [set |-> TRUE, subs |-> <<"S">>, rg |-> <<"R">>, ws |-> <<"W">>]

NoCall == [op |-> "none", value |-> PyNone, mode |-> "None", data_type |-> "None",
           declared |-> "None"]

(***************************************************************************)
(* EnvironmentSchema (core/build_/__aml_env.py:17-74).  A dependency is a  *)
(* package specifier (str) or a PipDependencies group; channels is a list  *)
(* or None.  Package and channel names are tokens.                         *)
(***************************************************************************)
StrDep(spec) == [kind |-> "str", spec |-> spec, pip |-> <<>>]
PipDep(pkgs) == [kind |-> "PipDependencies", spec |-> "", pip |-> pkgs]
NoChannels == [present |-> FALSE, items |-> <<>>]
Channels(items) == [present |-> TRUE, items |-> items]

EnvironmentSchema(name, channels, dependencies) ==
    [name |-> name, channels |-> channels, dependencies |-> dependencies]

SymmetricDifference(A, B) == (A \ B) \cup (B \ A)

Min_Zero(x, y) == 0

\* zip stops at the shorter of the two lists
Min(x, y) == IF x <= y THEN x ELSE y

\* _compare_channels: called only when the two channel attributes differ
compare_channels(self, other) ==
    IF ~self.channels.present /\ ~other.channels.present THEN [kind |-> "empty", set |-> {}]
    ELSE IF ~self.channels.present THEN [kind |-> "missing_self", set |-> {}]
    ELSE IF ~other.channels.present THEN [kind |-> "missing_other", set |-> {}]
    ELSE [kind |-> "symmetric_difference",
          set |-> SymmetricDifference(SeqToSet(self.channels.items),
                                      SeqToSet(other.channels.items))]

compare_dependency_SelfStr(i, self_dep, other_dep) ==
    IF self_dep.kind = "str" /\ (other_dep.kind # "str" \/ self_dep.spec # other_dep.spec)
    THEN {[key |-> IF other_dep.kind = "str" THEN "item" ELSE "type_mismatch", pos |-> i,
           self |-> self_dep, other |-> other_dep, set |-> {}]}
    ELSE {}

\* one entry of the dependencies diff for position i (0-based key), or none
compare_dependency(i, self_dep, other_dep) ==
    IF self_dep.kind = "str" /\ other_dep.kind = "str"
    THEN IF self_dep.spec # other_dep.spec
         THEN {[key |-> "item", pos |-> i, self |-> self_dep, other |-> other_dep, set |-> {}]}
         ELSE {}
    ELSE IF self_dep.kind = "PipDependencies" /\ other_dep.kind = "PipDependencies"
    THEN IF self_dep.pip # other_dep.pip
         THEN {[key |-> "pip", pos |-> i, self |-> self_dep, other |-> other_dep,
                set |-> SymmetricDifference(SeqToSet(self_dep.pip), SeqToSet(other_dep.pip))]}
         ELSE {}
    ELSE {[key |-> "type_mismatch", pos |-> i, self |-> self_dep, other |-> other_dep, set |-> {}]}

\* _compare_dependencies: the 'length' entry and the per-position entries
compare_dependencies(self, other) ==
    LET n1 == Len(self.dependencies)
        n2 == Len(other.dependencies)
    IN  [has_length |-> n1 # n2,
         length |-> IF n1 # n2 THEN <<n1, n2>> ELSE <<>>,
         items |-> UNION {compare_dependency(i - 1, self.dependencies[i], other.dependencies[i]) :
                            i \in 1..Min(n1, n2)}]

DepsDiffEmpty(d) == ~d.has_length /\ d.items = {}

\* compare: which keys the diff has, and what they hold
compare(self, other) ==
    LET deps_diff == compare_dependencies(self, other)
    IN  [has_name |-> self.name # other.name,
         name |-> IF self.name # other.name THEN <<self.name, other.name>> ELSE <<>>,
         has_channels |-> self.channels # other.channels,
         channels |-> IF self.channels # other.channels THEN compare_channels(self, other)
                      ELSE [kind |-> "absent", set |-> {}],
         has_dependencies |-> ~DepsDiffEmpty(deps_diff),
         dependencies |-> deps_diff]

\* len(diff)
DiffLen(diff) ==
    (IF diff.has_name THEN 1 ELSE 0) + (IF diff.has_channels THEN 1 ELSE 0)
        + (IF diff.has_dependencies THEN 1 ELSE 0)

is_equal(self, other) == DiffLen(compare(self, other)) = 0

(***************************************************************************)
(* Component "cmp": compare and is_equal applied to two manifests; its     *)
(* input domain.                                                           *)
(***************************************************************************)
RECURSIVE SeqsUpTo(_, _)
SeqsUpTo(S, n) ==
    IF n = 0 THEN {<<>>}
    ELSE LET shorter == SeqsUpTo(S, n - 1)
         IN  shorter \cup {Append(q, e) : q \in {t \in shorter : Len(t) = n - 1}, e \in S}

DepEntries == {StrDep("p"), StrDep("q"), PipDep(<<"p", "q">>), PipDep(<<"q", "p">>)}
DepLists == SeqsUpTo(DepEntries, MaxDeps)
ChannelArgs == {NoChannels, Channels(<<"x", "y">>), Channels(<<"y", "x">>), Channels(<<"x", "y", "x">>)}

NoDiff == compare(EnvironmentSchema("n", NoChannels, <<>>), EnvironmentSchema("n", NoChannels, <<>>))

(***************************************************************************)
(* increment_version (core/build_/__aml_env.py:77-95).                     *)
(***************************************************************************)
Digits == {"0", "1", "2", "3", "4", "5", "6", "7", "8", "9"}
DigitChars == <<"0", "1", "2", "3", "4", "5", "6", "7", "8", "9">>
DigitValue(c) == (CHOOSE i \in 1..10 : DigitChars[i] = c) - 1

\* str.isdigit()
IsDigitStr(s) == s # <<>> /\ \A i \in 1..Len(s) : s[i] \in Digits

RECURSIVE DigitsToNat(_)
DigitsToNat(s) ==
    IF s = <<>> THEN 0
    ELSE 10 * DigitsToNat(SubSeq(s, 1, Len(s) - 1)) + DigitValue(s[Len(s)])

RECURSIVE NatToStr(_)
NatToStr(n) == IF n < 10 THEN <<DigitChars[n + 1]>> ELSE NatToStr(n \div 10) \o <<DigitChars[(n % 10) + 1]>>

\* str(n)
IntToStr(n) == IF n < 0 THEN <<"-">> \o NatToStr(-n) ELSE NatToStr(n)

\* int(text): surrounding whitespace and one sign are accepted
py_int(text) ==
    LET t == Strip(text)
        signed == t # <<>> /\ Head(t) \in {"+", "-"}
        body == IF signed THEN Tail(t) ELSE t
    IN  IF ~IsDigitStr(body) THEN [ok |-> FALSE, n |-> 0]
        ELSE [ok |-> TRUE, n |-> IF signed /\ Head(t) = "-" THEN -DigitsToNat(body) ELSE DigitsToNat(body)]

\* re.match(r"(\d+)\.(\d+)\.(\d+)", s): the pattern need only match a prefix
ReMatchVersion(s) ==
    \E i, j \in 1..Len(s) :
        /\ 1 < i /\ i + 1 < j /\ j < Len(s)
        /\ s[i] = "." /\ s[j] = "."
        /\ \A k \in 1..(i - 1) : s[k] \in Digits
        /\ \A k \in (i + 1)..(j - 1) : s[k] \in Digits
        /\ s[j + 1] \in Digits

Join_First(parts, sep) == IF parts = <<>> THEN <<>> ELSE parts[1]

RECURSIVE Join(_, _)
\* sep.join(parts)
Join(parts, sep) ==
    IF parts = <<>> THEN <<>>
    ELSE IF Len(parts) = 1 THEN parts[1]
    ELSE parts[1] \o sep \o Join(Tail(parts), sep)

increment_version_Same(version_string, increment, timestamp) == Ok(version_string)

\* timestamp: str(datetime.now().timestamp()).split(".")[0]
increment_version(version_string, increment, timestamp) ==
    IF ~(ReMatchVersion(version_string) \/ IsDigitStr(version_string)) THEN Ok(timestamp)
    ELSE IF IsDigitStr(version_string)
    THEN Ok(IntToStr(IF increment THEN DigitsToNat(version_string) + 1
                     ELSE DigitsToNat(version_string) - 1))
    ELSE LET texts == Split(version_string, ".")
         IN  IF \E i \in 1..Len(texts) : ~py_int(texts[i]).ok THEN Raise("ValueError")
             ELSE LET parts == [i \in 1..Len(texts) |->
                                   IF i = Len(texts)
                                   THEN py_int(texts[i]).n + (IF increment THEN 1 ELSE -1)
                                   ELSE py_int(texts[i]).n]
                  IN  Ok(Join([i \in 1..Len(texts) |-> IntToStr(parts[i])], <<".">>))

(***************************************************************************)
(* Env (core/build_/__aml_env.py:98-245).  Optional values are records     *)
(* (given, val); a manifest file holds a raw mapping, which may lack the   *)
(* keys the schema requires and may hold keys the schema ignores.          *)
(***************************************************************************)
None == [given |-> FALSE, val |-> <<>>]
Some(v) == [given |-> TRUE, val |-> v]

\* x or default, for an optional argument
OrDefault(x, default) == IF x.given /\ x.val # <<>> THEN x ELSE default

RawConda(has_name, name, channels, dependencies, prefix) ==
    [has_name |-> has_name, name |-> name, channels |-> channels,
     dependencies |-> dependencies, prefix |-> prefix]
NoConda == RawConda(FALSE, "", NoChannels, <<>>, FALSE)

\* EnvironmentSchema(**raw) raises ValidationError unless the required keys are there
SchemaValid(raw) == raw.has_name
SchemaOf(raw) == EnvironmentSchema(raw.name, raw.channels, raw.dependencies)

\* azure.ai.ml.entities.Environment(...), as far as the reconciler sets it
Environment(name, version, description, tags, properties, conda, build, image) ==
    [name |-> name, version |-> version, description |-> description, tags |-> tags,
     properties |-> properties, conda_file |-> conda, build |-> build, image |-> image]
NoEnvironment == Environment("", None, None, None, None, NoConda, None, None)

ENV_DEFAULT_IMAGE == Some(<<"mcr.microsoft.com/azureml/openmpi4.1.0-ubuntu20.04:latest">>)
ENV_DEFAULT_DESCRIPTION(env_name) == Some(<<"Environment created by DSML SDK v2: ", env_name>>)
ENV_DEFAULT_TAGS == None

EnvOk(op, env) == [op |-> op, ok |-> TRUE, err |-> "none", env |-> env]
EnvRaise(op, e) == [op |-> op, ok |-> FALSE, err |-> e, env |-> NoEnvironment]
EnvNotRun == EnvRaise("none", "not_run")

Env_validate_Always(file) == TRUE

\* Env.__validate: self.conda_file_path.exists()
Env_validate(file) == file.exists

IsLatest(env) == env.properties = Some(<<"azureml.labels", "latest">>)

\* Env.get_latest: None when the service answers ResourceNotFoundError, the
\* first environment labelled latest otherwise; [0] of an empty list raises
get_latest(reg) ==
    IF reg.kind = "ResourceNotFoundError" THEN [ok |-> TRUE, err |-> "none", found |-> FALSE, env |-> NoEnvironment]
    ELSE IF reg.kind = "HttpResponseError" THEN [ok |-> FALSE, err |-> "HttpResponseError", found |-> FALSE, env |-> NoEnvironment]
    ELSE LET hits == SelectSeq(reg.envs, IsLatest)
         IN  IF hits = <<>> THEN [ok |-> FALSE, err |-> "IndexError", found |-> FALSE, env |-> NoEnvironment]
             ELSE [ok |-> TRUE, err |-> "none", found |-> TRUE, env |-> hits[1]]

\* lines 212-221: the version of the updated definition
new_version(interactive, typed, latest_version, timestamp) ==
    LET auto == increment_version(latest_version, TRUE, timestamp)
    IN  IF ~auto.ok THEN auto
        ELSE IF interactive /\ Strip(typed) # <<>> THEN Ok(typed)
        ELSE auto

create_or_update_Retry(reg, env) ==
    [calls |-> IF reg.create = "ok" THEN <<env>> ELSE <<env, env>>,
     err |-> IF reg.create = "ok" THEN "none" ELSE reg.create]

\* ml_client.environments.create_or_update(env): the calls that reach the
\* service and the error it raises, if any
create_or_update(reg, env) ==
    [calls |-> <<env>>, err |-> IF reg.create = "ok" THEN "none" ELSE reg.create]

is_equal_Never(self, other) == FALSE

\* line 207: remote_schema.is_equal(local_schema)
unchanged(remote_schema, local_schema) == is_equal(remote_schema, local_schema)

\* Env.get_create_or_update: the calls it makes (listings, definitions
\* pushed) and what it returns
get_create_or_update(self, reg, file, args, timestamp) ==
    LET latest == get_latest(reg)
        op == "get_create_or_update"
    IN  IF ~latest.ok THEN [lists |-> 1, pushed |-> <<>>, ret |-> EnvRaise(op, latest.err)]
        ELSE IF ~latest.found
        THEN LET new_env == Environment(self.env_name, None,
                                OrDefault(args.create_description, ENV_DEFAULT_DESCRIPTION(self.env_name)),
                                OrDefault(args.create_tags, ENV_DEFAULT_TAGS),
                                None, file.raw, None,
                                OrDefault(args.create_image, ENV_DEFAULT_IMAGE))
                 push == create_or_update(reg, new_env)
             IN  [lists |-> 1, pushed |-> push.calls,
                  ret |-> IF push.err = "none" THEN EnvOk(op, new_env) ELSE EnvRaise(op, push.err)]
        ELSE IF ~file.exists THEN [lists |-> 1, pushed |-> <<>>, ret |-> EnvRaise(op, "FileNotFoundError")]
        ELSE IF ~SchemaValid(file.raw) \/ ~SchemaValid(latest.env.conda_file)
        THEN [lists |-> 1, pushed |-> <<>>, ret |-> EnvRaise(op, "ValueError: not a valid conda file")]
        ELSE IF ~unchanged(SchemaOf(latest.env.conda_file), SchemaOf(file.raw))
        THEN LET version == new_version(args.interactive, args.typed, latest.env.version.val, timestamp)
                 updated_env == Environment(self.env_name, Some(version.val), latest.env.description,
                                    latest.env.tags, latest.env.properties, file.raw,
                                    latest.env.build, latest.env.image)
                 push == create_or_update(reg, updated_env)
             IN  IF ~version.ok THEN [lists |-> 1, pushed |-> <<>>, ret |-> EnvRaise(op, version.err)]
                 ELSE [lists |-> 1, pushed |-> push.calls,
                       ret |-> IF push.err = "none" THEN EnvOk(op, updated_env)
                               ELSE EnvRaise(op, push.err)]
        ELSE [lists |-> 1, pushed |-> <<>>, ret |-> EnvOk(op, latest.env)]

(***************************************************************************)
(* Component "env": one Env object and one reconciliation; its input       *)
(* domain.                                                                 *)
(***************************************************************************)
EnvRaws ==
    {RawConda(hn, IF hn THEN "n" ELSE "", ch, deps, pf) :
        hn \in BOOLEAN, ch \in {Channels(<<"x", "y">>), Channels(<<"y", "x">>)},
        deps \in {<<StrDep("p")>>, <<StrDep("q")>>}, pf \in BOOLEAN}

Versions == {<<"1", ".", "2", ".", "3">>, <<"7">>, <<"a", "b", "c">>,
             <<"1", ".", "2", ".", "3", "-", "r", "c", "1">>}
TypedInputs == {<<>>, <<" ">>, <<"1", ".", "2", ".", "3">>, <<"9">>}
Timestamps == {<<"1", "7", "0", "0">>, <<"1", "8", "0", "1">>}

EnvName == "env"

OldEnv ==
    Environment(EnvName, Some(<<"0">>), Some(<<"old description">>), None,
                Some(<<"azureml.labels", "other">>), NoConda, None, Some(<<"old image">>))

LatestEnvs ==
    {Environment(EnvName, Some(v), Some(<<"remote description">>), Some(<<"remote tags">>),
                 Some(<<"azureml.labels", "latest">>), raw, Some(<<"remote build">>),
                 Some(<<"remote image">>)) : v \in Versions, raw \in EnvRaws}

\* what the service answers to a listing (kind, envs) and to create_or_update
Registry(kind, envs, create) == [kind |-> kind, envs |-> envs, create |-> create]

Registries ==
    {Registry("ResourceNotFoundError", <<>>, c) : c \in {"ok", "HttpResponseError"}}
    \cup {Registry("HttpResponseError", <<>>, "ok"),
          Registry("listing", <<>>, "ok"),
          Registry("listing", <<OldEnv>>, "ok")}
    \cup {Registry("listing", <<OldEnv, e>>, "ok") : e \in LatestEnvs}
    \cup {Registry("listing", <<OldEnv, e>>, "HttpResponseError") :
             e \in {x \in LatestEnvs : x.version = Some(<<"1", ".", "2", ".", "3">>)}}

CondaFiles == {[exists |-> FALSE, raw |-> NoConda]} \cup {[exists |-> TRUE, raw |-> r] : r \in EnvRaws}

NoArgs == [create_version |-> None, create_image |-> None, create_description |-> None,
           create_tags |-> None, interactive |-> FALSE, typed |-> <<>>]

ArgSets ==
    {[create_version |-> v, create_image |-> i, create_description |-> d, create_tags |-> t,
      interactive |-> ia, typed |-> ty] :
        v \in {None, Some(<<"5">>)}, i \in {None, Some(<<"custom image">>)},
        d \in {None, Some(<<"custom description">>)}, t \in {None, Some(<<"custom tags">>)},
        ia \in BOOLEAN, ty \in TypedInputs}

NoEnvObj == [built |-> FALSE, env_name |-> ""]

(***************************************************************************)
(* Component "ver": increment_version applied to a version string; its     *)
(* input domain.                                                           *)
(***************************************************************************)
VerAlphabet == {"0", "1", "9", "."}
VersionStrings == StringsUpTo(VerAlphabet, MaxVerLen) \cup Versions \cup TypedInputs

(***************************************************************************)
(* The info file (core/build_/__gen_metafile.py).  A mapping is a sequence *)
(* of (key, value) entries in insertion order; a value is a string or the  *)
(* git block.                                                              *)
(***************************************************************************)
Unknown == <<"u", "n", "k", "n", "o", "w", "n">>

GitConfig(username, email, remote_url) ==
    [username |-> username, email |-> email, remote_url |-> remote_url]

\* subprocess.check_output(cmd).decode("utf-8").strip(); raises when the
\* command cannot be run or exits with a non-zero status
check_output(answer) ==
    IF answer.ok THEN Ok(Strip(answer.out)) ELSE Raise("CalledProcessError")

get_git_config_PerLookup(git) ==
    GitConfig(IF check_output(git.name).ok THEN check_output(git.name).val ELSE Unknown,
              IF check_output(git.email).ok THEN check_output(git.email).val ELSE Unknown,
              IF check_output(git.url).ok THEN check_output(git.url).val ELSE Unknown)

\* get_git_config: one try block around the three lookups
get_git_config(git) ==
    LET username == check_output(git.name)
        email == check_output(git.email)
        remote_url == check_output(git.url)
    IN  IF username.ok /\ email.ok /\ remote_url.ok
        THEN GitConfig(username.val, email.val, remote_url.val)
        ELSE GitConfig(Unknown, Unknown, Unknown)

StrVal(x) == [kind |-> "str", s |-> x, m |-> GitConfig(<<>>, <<>>, <<>>)]
MapVal(g) == [kind |-> "map", s |-> <<>>, m |-> g]
Entry(k, v) == [key |-> k, value |-> v]

HasKey(d, k) == \E i \in 1..Len(d) : d[i].key = k
Lookup(d, k) == d[CHOOSE i \in 1..Len(d) : d[i].key = k].value

RECURSIVE DictUpdate(_, _)
\* d.update(kw)
DictUpdate(d, kw) ==
    IF kw = <<>> THEN d
    ELSE LET e == Head(kw)
             d1 == IF HasKey(d, e.key)
                   THEN [i \in 1..Len(d) |-> IF d[i].key = e.key THEN e ELSE d[i]]
                   ELSE Append(d, e)
         IN  DictUpdate(d1, Tail(kw))

\* the keys of the model in the order yaml.dump sorts them
KeyOrder ==
    <<"experiment_name", "git", "owner", "pipeline_description", "pipeline_name", "timestamp">>

\* yaml.dump(d): the entries of the mapping, sorted by key
yaml_dump(d) ==
    LET present(k) == HasKey(d, k)
        keys == SelectSeq(KeyOrder, present)
    IN  [i \in 1..Len(keys) |-> Entry(keys[i], Lookup(d, keys[i]))]

\* now: datetime.now().strftime("%Y-%m-%d %H:%M:%S")
get_infofile_content(pipeline_name, pipeline_description, experiment_name, kwargs, git, now) ==
    LET info == get_git_config(git)
        yaml_dict == <<Entry("pipeline_name", StrVal(pipeline_name)),
                       Entry("pipeline_description", StrVal(pipeline_description)),
                       Entry("experiment_name", StrVal(experiment_name)),
                       Entry("git", MapVal(GitConfig(info.username, info.email, info.remote_url))),
                       Entry("timestamp", StrVal(now))>>
    IN  yaml_dump(IF kwargs # <<>> THEN DictUpdate(yaml_dict, kwargs) ELSE yaml_dict)

BASE_DIR == "BASE_DIR"
DEFAULT_INFOFILE_NAME == "aml_pipeline_info.yaml"

\* Path(save_at): the empty path is the current directory
PathOf(p) == IF p = "" THEN "." ELSE p

exists(files, p) == files[p] # "absent"
is_file_Never(files, p) == FALSE
is_file(files, p) == files[p] = "file"

InfoOk(op, doc) == [op |-> op, ok |-> TRUE, err |-> "none", doc |-> doc]
InfoRaise(op, e) == [op |-> op, ok |-> FALSE, err |-> e, doc |-> <<>>]
InfoNotRun == InfoRaise("none", "not_run")

FileWrite(dir, name, content) == [dir |-> dir, name |-> name, content |-> content]

\* build_infofile: what it returns or raises and the files it writes
build_infofile(pipeline_name, pipeline_description, experiment_name, save_at, kwargs, git, now, files) ==
    LET op == "build_infofile"
        yaml_content == get_infofile_content(pipeline_name, pipeline_description,
                                             experiment_name, kwargs, git, now)
    IN  IF save_at.given /\ save_at.val # ""
        THEN LET p == PathOf(save_at.val)
             IN  IF ~exists(files, p)
                 THEN [ret |-> InfoRaise(op, "ValueError: Directory not found"), writes |-> <<>>]
                 ELSE IF is_file(files, p)
                 THEN [ret |-> InfoRaise(op, "ValueError: 'save_at' must be a directory"), writes |-> <<>>]
                 ELSE [ret |-> InfoOk(op, <<>>),
                       writes |-> <<FileWrite(p, DEFAULT_INFOFILE_NAME, yaml_content)>>]
        ELSE [ret |-> InfoOk(op, <<>>),
              writes |-> <<FileWrite(BASE_DIR, DEFAULT_INFOFILE_NAME, yaml_content)>>]

(***************************************************************************)
(* Component "info": the git lookups and one call of the generator; its    *)
(* input domain.                                                           *)
(***************************************************************************)
GitAnswers == {[ok |-> FALSE, out |-> <<>>], [ok |-> TRUE, out |-> <<"v", "\n">>]}
GitEnvs == {[name |-> a, email |-> b, url |-> c] : a \in GitAnswers, b \in GitAnswers, c \in GitAnswers}

\* "out" is the path whose kind varies; the current directory and the
\* project root are directories
Filesystems ==
    {[p \in {".", "out", BASE_DIR} |-> IF p = "out" THEN k ELSE "dir"] : k \in {"absent", "file", "dir"}}

\* save_at = None
NoSaveAt == [given |-> FALSE, val |-> ""]
SaveAts == {NoSaveAt, [given |-> TRUE, val |-> ""], [given |-> TRUE, val |-> "out"]}
KwargSets ==
    {<<>>, <<Entry("owner", StrVal(<<"o">>))>>, <<Entry("git", StrVal(<<"g">>))>>,
     <<Entry("timestamp", StrVal(<<"t">>))>>}
Nows == {<<"2024-01-01 00:00:00">>, <<"2024-01-01 00:00:01">>}

PipelineName == <<"pipe">>
PipelineDescription == <<"a pipeline">>
ExperimentName == <<"exp">>

NoInfoArgs == [save_at |-> NoSaveAt, kwargs |-> <<>>]

(***************************************************************************)
(* Component "guess": DataSchema.__guess_dtype applied to a value; its     *)
(* input domain.                                                           *)
(***************************************************************************)
UriPrefixes == {P_azureml, P_https, P_http, P_wasbs, P_abfss, P_adl}
GuessValues ==
    {PyNone, PyBool(TRUE), PyBool(FALSE), PyInt(0), PyInt(7), PyFloat(314)}
    \cup {PyStr(p \o t) : p \in UriPrefixes \cup {<<>>}, t \in StringsUpTo({"a", ".", "/"}, MaxTailLen)}

(***************************************************************************)
(* get_last_n_days (core/utils.py:109-129).  A file is the sequence of     *)
(* the segments of its path after "/<folder_name>/": year, month, day      *)
(* directories and the file name.                                          *)
(***************************************************************************)
RECURSIVE Pow10(_)
Pow10(i) == IF i = 0 THEN 1 ELSE 10 * Pow10(i - 1)

\* get_file_mark_mapping: sum(t * 10**i) over the reversed directory numbers;
\* int() raises ValueError on a directory name that is no number
file_mark(file) ==
    LET tmp_name == SubSeq(file, 1, Len(file) - 1)
        n == Len(tmp_name)
        Sum[i \in 0..n] ==
            IF i = 0 THEN 0 ELSE Sum[i - 1] + py_int(tmp_name[i]).n * Pow10(n - i)
    IN  IF \E i \in 1..n : ~py_int(tmp_name[i]).ok THEN [ok |-> FALSE, n |-> 0]
        ELSE [ok |-> TRUE, n |-> Sum[n]]

RECURSIVE sorted_reverse(_)
\* sorted(files, key=lambda file: mapping[file], reverse=True) on (file, mark)
\* entries: descending and stable
sorted_reverse(entries) ==
    IF entries = <<>> THEN <<>>
    ELSE LET rest == sorted_reverse(SubSeq(entries, 1, Len(entries) - 1))
             last == entries[Len(entries)]
             before == Cardinality({i \in 1..Len(rest) : rest[i].mark >= last.mark})
         IN  SubSeq(rest, 1, before) \o <<last>> \o SubSeq(rest, before + 1, Len(rest))

DaysOk(ranking, read) == [ok |-> TRUE, err |-> "none", ranking |-> ranking, read |-> read]
DaysRaise(e) == [ok |-> FALSE, err |-> e, ranking |-> <<>>, read |-> <<>>]

\* get_last_n_days: files is what recursive_glob_list returns; the result is
\* the ranking and the files read and concatenated
get_last_n_days(files, days, freq) ==
    LET get_last == days \div freq
        mapping == [i \in 1..Len(files) |-> [file |-> files[i], mark |-> file_mark(files[i]).n]]
        ranked == sorted_reverse(mapping)
        sorted_files == [i \in 1..Len(ranked) |-> ranked[i].file]
        last_files == SubSeq(sorted_files, 1, Min(get_last, Len(sorted_files)))
    IN  IF \E i \in 1..Len(files) : ~file_mark(files[i]).ok THEN DaysRaise("ValueError")
        ELSE IF last_files = <<>> THEN DaysRaise("ValueError: No objects to concatenate")
        ELSE DaysOk(sorted_files, last_files)

(***************************************************************************)
(* Component "days": get_last_n_days applied to a listing; its input       *)
(* domain.                                                                 *)
(***************************************************************************)
DayFiles ==
    {<<y, m, d, <<"f">>>> : y \in {<<"2", "0", "2", "3">>, <<"2", "0", "2", "4">>},
                            m \in {<<"1">>, <<"2">>, <<"1", "2">>}, d \in {<<"1">>, <<"2", "8">>}}
DayListings == {q \in SeqsUpTo(DayFiles, MaxDayFiles) : \A i, j \in 1..Len(q) : i # j => q[i] # q[j]}
DayArgs == {[days |-> 2, freq |-> 2], [days |-> 4, freq |-> 2], [days |-> 90, freq |-> 2]}

(***************************************************************************)
(* Blob containers (core/_blob.py).  A path or blob name is a string; the  *)
(* local filesystem is the set of its files (path, content).               *)
(***************************************************************************)
\* the segments of a path
PathParts(p) == SelectSeq(Split(p, "/"), LAMBDA x : x # <<>> /\ x # <<".">>)

\* str(Path(p))
PathStr(p) == IF PathParts(p) = <<>> THEN <<".">> ELSE Join(PathParts(p), <<"/">>)

\* Path(p) / q
PathJoin(p, q) == IF PathStr(p) = <<".">> THEN PathStr(q) ELSE PathStr(p) \o <<"/">> \o PathStr(q)

\* Path(p).name
PathName(p) == IF PathParts(p) = <<>> THEN <<>> ELSE PathParts(p)[Len(PathParts(p))]

\* Path(p).relative_to(folder) raises ValueError unless p lies under folder
relative_to(p, folder) ==
    LET a == PathParts(p)
        b == PathParts(folder)
    IN  IF Len(a) >= Len(b) /\ SubSeq(a, 1, Len(b)) = b
        THEN Ok(PathStr(Join(SubSeq(a, Len(b) + 1, Len(a)), <<"/">>)))
        ELSE Raise("ValueError")

LocalFile(path, content) == [path |-> path, content |-> content]

\* Path(p).is_file() on the local filesystem
path_is_file(files, p) == \E f \in files : f.path = PathStr(p)

\* the local files under a directory
files_under(files, dir) ==
    {f \in files : Len(PathParts(f.path)) > Len(PathParts(dir))
                   /\ SubSeq(PathParts(f.path), 1, Len(PathParts(dir))) = PathParts(dir)}

\* Blob.download_blob: os.makedirs(save_at.parent, exist_ok=True), then the
\* data of the blob is written to save_at
download_blob(files, blob_name, save_at) ==
    LET parts == PathParts(save_at)
        n == Len(parts)
        ancestor(k) == Join(SubSeq(parts, 1, k), <<"/">>)
    IN  IF n > 1 /\ path_is_file(files, ancestor(n - 1))
        THEN [ok |-> FALSE, err |-> "FileExistsError", files |-> files]
        ELSE IF \E k \in 1..(n - 2) : path_is_file(files, ancestor(k))
        THEN [ok |-> FALSE, err |-> "NotADirectoryError", files |-> files]
        ELSE IF n = 0 \/ files_under(files, save_at) # {}
        THEN [ok |-> FALSE, err |-> "IsADirectoryError", files |-> files]
        ELSE [ok |-> TRUE, err |-> "none",
              files |-> {f \in files : f.path # PathStr(save_at)}
                        \cup {LocalFile(PathStr(save_at), blob_name)}]

Download(blob_name, save_at) == [blob |-> blob_name, save_at |-> PathStr(save_at)]

BlobOk(op) == [op |-> op, ok |-> TRUE, err |-> "none"]
BlobRaise(op, e) == [op |-> op, ok |-> FALSE, err |-> e]

save_target_Fresh(files, save_at, original, filename) == PathJoin(original, filename)

\* lines 119-122: save_at is the variable the loop itself assigns to
save_target(files, save_at, original, filename) ==
    IF path_is_file(files, save_at) THEN PathStr(save_at) ELSE PathJoin(save_at, filename)

RECURSIVE download_these_loop(_, _, _, _, _)
\* lines 116-123: todo is the iteration order of the set of names
download_these_loop(todo, files, save_at, original, downloads) ==
    IF todo = <<>>
    THEN [ret |-> BlobOk("download_these"), files |-> files, downloads |-> downloads]
    ELSE LET blob_name == Head(todo)
             target == save_target(files, save_at, original, PathName(blob_name))
             saved == download_blob(files, blob_name, target)
         IN  IF ~saved.ok
             THEN [ret |-> BlobRaise("download_these", saved.err), files |-> files,
                   downloads |-> downloads]
             ELSE download_these_loop(Tail(todo), saved.files, target, original,
                                      Append(downloads, Download(blob_name, target)))

missing_Never(blob_names, listing) == {}

\* line 107: _diff
missing(blob_names, listing) == blob_names \ SeqToSet(listing)

\* Container.download_these; order is the order in which the set of names
\* that exist is iterated
download_these(listing, files, blob_names, order, save_at, pass_if_doesnt_exist) ==
    LET op == "download_these"
        _diff == missing(blob_names, listing)
    IN  IF ~pass_if_doesnt_exist /\ _diff # {}
        THEN [ret |-> BlobRaise(op, "FileNotFoundError"), files |-> files, downloads |-> <<>>]
        ELSE download_these_loop(order, files, save_at, save_at, <<>>)

RECURSIVE download_folder_loop(_, _, _, _, _, _)
\* lines 89-97
download_folder_loop(blobs, files, folder, save_at, keep_hierarchy, downloads) ==
    IF blobs = <<>> THEN [ret |-> BlobOk("download_folder"), files |-> files, downloads |-> downloads]
    ELSE LET b == Head(blobs)
             rel == IF keep_hierarchy THEN relative_to(b, folder) ELSE Ok(PathName(b))
             save_at_ == PathJoin(save_at, rel.val)
             saved == download_blob(files, b, save_at_)
         IN  IF ~rel.ok
             THEN [ret |-> BlobRaise("download_folder", rel.err), files |-> files,
                   downloads |-> downloads]
             ELSE IF ~saved.ok
             THEN [ret |-> BlobRaise("download_folder", saved.err), files |-> files,
                   downloads |-> downloads]
             ELSE download_folder_loop(Tail(blobs), saved.files, folder, save_at,
                                       keep_hierarchy, Append(downloads, Download(b, save_at_)))

\* Container.download_folder: the blobs whose name starts with str(folder)
\* and for which Path(name).is_file() holds locally
download_folder(listing, files, folder, save_at, keep_hierarchy) ==
    LET starts(b) == StartsWith(b, PathStr(folder))
        local(b) == path_is_file(files, b)
        blobs == SelectSeq(SelectSeq(listing, starts), local)
    IN  download_folder_loop(blobs, files, PathStr(folder), PathStr(save_at), keep_hierarchy, <<>>)

\* LocalFileUpdater.__get_sas_url: the environment variable BLOB-<NAME>
get_sas_url(environ) == IF environ.sas_url THEN Ok(<<"sas">>) ELSE Raise("ValueError")

\* LocalFileUpdater.__handle_yaml_row_dir(local_dir, "<container>:<blob_dir>", ...);
\* __update_file is handed a Path and calls .split on it
handle_yaml_row_dir(environ, listing, files, local_dir, blob_dir, only_files_in_dir, keep_onlylocals) ==
    LET op == "handle_yaml_row_dir"
        sas == get_sas_url(environ)
        kept == files \ files_under(files, local_dir)
    IN  IF only_files_in_dir
        THEN [ret |-> IF \E f \in files_under(files, local_dir) : Contains(PathName(f.path), ".")
                      THEN BlobRaise(op, "AttributeError") ELSE BlobOk(op),
              files |-> files, downloads |-> <<>>]
        ELSE IF keep_onlylocals
        THEN IF ~sas.ok THEN [ret |-> BlobRaise(op, sas.err), files |-> files, downloads |-> <<>>]
             ELSE LET r == download_folder(listing, files, blob_dir, local_dir, TRUE)
                  IN  [ret |-> [r.ret EXCEPT !.op = op], files |-> r.files, downloads |-> r.downloads]
        ELSE IF ~sas.ok THEN [ret |-> BlobRaise(op, sas.err), files |-> kept, downloads |-> <<>>]
             ELSE LET r == download_folder(listing, kept, blob_dir, local_dir, TRUE)
                  IN  [ret |-> [r.ret EXCEPT !.op = op], files |-> r.files, downloads |-> r.downloads]

(***************************************************************************)
(* Component "blob": one container, the local filesystem and one call;     *)
(* its input domain.                                                       *)
(***************************************************************************)
B_da == <<"d", "/", "a">>
B_db == <<"d", "/", "b", ".", "c">>
B_dda == <<"d", "d", "/", "a">>
B_e == <<"e">>
AllBlobs == <<B_da, B_db, B_dda, B_e>>

\* what list_blobs returns
Listings == {SelectSeq(AllBlobs, LAMBDA b : b \in S) : S \in SUBSET SeqToSet(AllBlobs)}

\* the local filesystem before the call: "out" is a directory or absent,
\* "f" a file
LocalFilesystems ==
    {{}, {LocalFile(B_da, <<"old">>)}, {LocalFile(<<"f">>, <<"old">>)},
     {LocalFile(B_da, <<"old">>), LocalFile(B_db, <<"old">>)},
     {LocalFile(B_da, <<"old">>), LocalFile(B_dda, <<"old">>)},
     {LocalFile(B_da, <<"old">>), LocalFile(<<"f">>, <<"old">>)},
     {LocalFile(<<"o", "u", "t", "/", "x", ".", "y">>, <<"old">>)}}

SaveTargets == {<<>>, <<"o", "u", "t">>, <<"f">>}
Folders == {<<"d">>, <<"d", "/">>}
LocalDirs == {<<"d">>, <<"o", "u", "t">>}
Environs == {[sas_url |-> TRUE], [sas_url |-> FALSE]}

RECURSIVE Orders(_)
\* the orders in which a set can be iterated
Orders(S) == IF S = {} THEN {<<>>} ELSE UNION {{<<x>> \o q : q \in Orders(S \ {x})} : x \in S}

Requests == {S \in SUBSET SeqToSet(AllBlobs) : S # {} /\ Cardinality(S) <= MaxRequested}

BlobNotRun == BlobRaise("none", "not_run")

NoBlobCall ==
    [blob_names |-> {}, save_at |-> <<>>, pass_if_doesnt_exist |-> FALSE, folder |-> <<>>,
     keep_hierarchy |-> TRUE, only_files_in_dir |-> FALSE, keep_onlylocals |-> FALSE]

(***************************************************************************)
(* Values the variables of a component hold while another one is           *)
(* exercised.                                                              *)
(***************************************************************************)
IdleGuess ==
    /\ guess_arg = PyNone
    /\ guess_out = "not_run"

IdleDays ==
    /\ day_files = <<>>
    /\ day_args = [days |-> 90, freq |-> 2]
    /\ day_out = DaysRaise("not_run")

IdleBlob ==
    /\ blob_listing = <<>>
    /\ blob_before = {}
    /\ blob_local = {}
    /\ blob_environ = [sas_url |-> FALSE]
    /\ blob_call = NoBlobCall
    /\ blob_ret = BlobNotRun
    /\ blob_downloads = <<>>

IdleVer ==
    /\ ver_in = <<>>
    /\ ver_inc = TRUE
    /\ ver_ts = <<>>
    /\ ver_out = NotRun

IdleInfo ==
    /\ git_env = [name |-> [ok |-> FALSE, out |-> <<>>], email |-> [ok |-> FALSE, out |-> <<>>],
                  url |-> [ok |-> FALSE, out |-> <<>>]]
    /\ fs = [p \in {".", "out", BASE_DIR} |-> "dir"]
    /\ info_args = NoInfoArgs
    /\ git_info = GitConfig(<<>>, <<>>, <<>>)
    /\ info_ret = InfoNotRun
    /\ written = <<>>

IdleData ==
    /\ schema = NoSchema
    /\ local_paths = {}
    /\ call = NoCall
    /\ res = DataNotRun
    /\ steps = <<>>

IdleUri ==
    /\ short_uri = <<>>
    /\ ambient = DataClient
    /\ ds_res = NotRun /\ ds_prev = NotRun
    /\ aml_res = NotRun /\ aml_prev = NotRun

IdleCmp ==
    /\ cmp_self = EnvironmentSchema("n", NoChannels, <<>>)
    /\ cmp_other = EnvironmentSchema("n", NoChannels, <<>>)
    /\ cmp_diff = NoDiff
    /\ cmp_equal = "none"
    /\ cmp_rev = [diff |-> NoDiff, equal |-> "none"]

IdleEnv ==
    /\ registry = [kind |-> "ResourceNotFoundError", envs |-> <<>>, create |-> "ok"]
    /\ conda_file = [exists |-> FALSE, raw |-> NoConda]
    /\ env_obj = NoEnvObj
    /\ env_args = NoArgs
    /\ listed = 0
    /\ pushed = <<>>
    /\ env_ret = EnvNotRun

(***************************************************************************)
(* Actions of component "data".                                            *)
(***************************************************************************)
InitData ==
    /\ component = "data"
    /\ IdleGuess
    /\ IdleDays
    /\ IdleBlob
    /\ IdleVer
    /\ IdleInfo
    /\ IdleUri
    /\ schema = NoSchema
    /\ local_paths = {V_dir}
    /\ call = NoCall
    /\ res = DataNotRun
    /\ steps = <<>>
    /\ IdleCmp
    /\ IdleEnv

\* DataSchema(data_type, default_value, description, ml_client)
Construct ==
    /\ component = "data"
    /\ ~schema.built
    /\ \E data_type \in DataTypeArgs, default_value \in Values, description \in Descriptions :
        LET r == DataSchema_init(data_type, default_value, description)
        IN  /\ schema' = r.schema
            /\ res' = r.res
            /\ steps' = <<>>
            /\ call' = [op |-> "construct", value |-> default_value, mode |-> "None",
                        data_type |-> data_type, declared |-> "None"]
    /\ UNCHANGED <<component, guessVars, daysVars, blobVars, verVars, infoVars, uriVars, local_paths, cmpVars, envVars>>

\* schema.as_input(value, mode)
AsInput ==
    /\ component = "data"
    /\ schema.built
    /\ \E value \in Values, mode \in Modes :
        LET r == as_input(schema, ambient, local_paths, value, mode)
        IN  /\ schema' = r.schema
            /\ res' = r.res
            /\ steps' = r.steps
            /\ call' = [op |-> "as_input", value |-> value, mode |-> mode,
                        data_type |-> "None", declared |-> schema.data_type]
    /\ UNCHANGED <<component, guessVars, daysVars, blobVars, verVars, infoVars, uriVars, local_paths, cmpVars, envVars>>

\* schema.as_output(value, mode)
AsOutput ==
    /\ component = "data"
    /\ schema.built
    /\ \E value \in Values, mode \in Modes :
        LET r == as_output(schema, ambient, local_paths, value, mode)
        IN  /\ schema' = r.schema
            /\ res' = r.res
            /\ steps' = r.steps
            /\ call' = [op |-> "as_output", value |-> value, mode |-> mode,
                        data_type |-> "None", declared |-> schema.data_type]
    /\ UNCHANGED <<component, guessVars, daysVars, blobVars, verVars, infoVars, uriVars, local_paths, cmpVars, envVars>>

NextData == Construct \/ AsInput \/ AsOutput
SpecData == InitData /\ [][NextData]_vars

(***************************************************************************)
(* Actions of component "cmp".                                             *)
(***************************************************************************)
InitCmp ==
    /\ component = "cmp"
    /\ IdleGuess
    /\ IdleDays
    /\ IdleBlob
    /\ IdleVer
    /\ IdleInfo
    /\ IdleUri
    /\ IdleData
    /\ cmp_self \in {EnvironmentSchema("n", c, d) : c \in ChannelArgs, d \in DepLists}
    /\ cmp_other \in {EnvironmentSchema(n, c, d) : n \in {"n", "m"}, c \in ChannelArgs, d \in DepLists}
    /\ cmp_diff = NoDiff
    /\ cmp_equal = "none"
    /\ cmp_rev = [diff |-> NoDiff, equal |-> "none"]
    /\ IdleEnv

\* cmp_self.compare(cmp_other) and cmp_self.is_equal(cmp_other), and the same
\* two calls the other way round
Compare ==
    /\ component = "cmp"
    /\ cmp_equal = "none"
    /\ cmp_diff' = compare(cmp_self, cmp_other)
    /\ cmp_equal' = IF is_equal(cmp_self, cmp_other) THEN "true" ELSE "false"
    /\ cmp_rev' = [diff |-> compare(cmp_other, cmp_self),
                   equal |-> IF is_equal(cmp_other, cmp_self) THEN "true" ELSE "false"]
    /\ UNCHANGED <<component, guessVars, daysVars, blobVars, verVars, infoVars, uriVars, dataVars, cmp_self, cmp_other, envVars>>

NextCmp == Compare
SpecCmp == InitCmp /\ [][NextCmp]_vars

(***************************************************************************)
(* Actions of component "env".                                             *)
(***************************************************************************)
InitEnv ==
    /\ component = "env"
    /\ IdleGuess
    /\ IdleDays
    /\ IdleBlob
    /\ IdleVer
    /\ IdleInfo
    /\ IdleUri
    /\ IdleData
    /\ IdleCmp
    /\ registry \in Registries
    /\ conda_file \in CondaFiles
    /\ env_obj = NoEnvObj
    /\ env_args = NoArgs
    /\ listed = 0
    /\ pushed = <<>>
    /\ env_ret = EnvNotRun

\* Env(env_name, conda_file_path): __validate raises when the file is missing
EnvInit ==
    /\ component = "env"
    /\ env_ret = EnvNotRun
    /\ IF Env_validate(conda_file)
       THEN /\ env_obj' = [built |-> TRUE, env_name |-> EnvName]
            /\ env_ret' = EnvOk("init", NoEnvironment)
       ELSE /\ env_obj' = NoEnvObj
            /\ env_ret' = EnvRaise("init", "ValueError: conda file not found")
    /\ UNCHANGED <<component, guessVars, daysVars, blobVars, verVars, infoVars, uriVars, dataVars, cmpVars, registry, conda_file, env_args,
                   listed, pushed>>

\* env.get_create_or_update(create_version, create_image, create_description,
\* create_tags, interactive), with what the user types when prompted
GetCreateOrUpdate ==
    /\ component = "env"
    /\ env_obj.built
    /\ env_ret.op = "init"
    /\ \E args \in ArgSets, timestamp \in Timestamps :
        LET r == get_create_or_update(env_obj, registry, conda_file, args, timestamp)
        IN  /\ (~args.interactive => args.typed = <<>>)
            /\ env_args' = args
            /\ listed' = listed + r.lists
            /\ pushed' = pushed \o r.pushed
            /\ env_ret' = r.ret
    /\ UNCHANGED <<component, guessVars, daysVars, blobVars, verVars, infoVars, uriVars, dataVars, cmpVars, registry, conda_file, env_obj>>

NextEnv == EnvInit \/ GetCreateOrUpdate
SpecEnv == InitEnv /\ [][NextEnv]_vars

(***************************************************************************)
(* Component "uri": the two resolvers applied to a Short Reference.        *)
(***************************************************************************)
RefAlphabet == {"s", "p", ":", "/", " "}
ShortRefs == StringsUpTo(RefAlphabet, MaxRefLen)

Ambients ==
    {[set |-> st, subs |-> <<"S">>, rg |-> <<"R">>, ws |-> <<"W">>] : st \in BOOLEAN}
    \cup {[set |-> TRUE, subs |-> <<"W", "2">>, rg |-> <<"S">>, ws |-> <<"R">>]}

InitUri ==
    /\ component = "uri"
    /\ IdleGuess
    /\ IdleDays
    /\ IdleBlob
    /\ IdleVer
    /\ IdleInfo
    /\ short_uri \in ShortRefs
    /\ ambient \in Ambients
    /\ ds_res = NotRun /\ ds_prev = NotRun
    /\ aml_res = NotRun /\ aml_prev = NotRun
    /\ IdleData
    /\ IdleCmp
    /\ IdleEnv

\* a call of DataSchema.__get_ds_uri(short_uri) on a schema holding the client
ResolveDs ==
    /\ component = "uri"
    /\ ds_prev' = ds_res
    /\ ds_res' = get_ds_uri(ambient, short_uri)
    /\ UNCHANGED <<component, guessVars, daysVars, blobVars, verVars, infoVars, short_uri, ambient, aml_res, aml_prev, dataVars, cmpVars, envVars>>

\* a call of get_aml_uri(short_uri)
ResolveAml ==
    /\ component = "uri"
    /\ aml_prev' = aml_res
    /\ aml_res' = get_aml_uri(ambient, short_uri)
    /\ UNCHANGED <<component, guessVars, daysVars, blobVars, verVars, infoVars, short_uri, ambient, ds_res, ds_prev, dataVars, cmpVars, envVars>>

NextUri == ResolveDs \/ ResolveAml
SpecUri == InitUri /\ [][NextUri]_vars

(***************************************************************************)
(* Actions of component "ver".                                             *)
(***************************************************************************)
InitVer ==
    /\ component = "ver"
    /\ IdleGuess
    /\ IdleDays
    /\ IdleBlob
    /\ IdleUri
    /\ IdleData
    /\ IdleCmp
    /\ IdleEnv
    /\ IdleInfo
    /\ ver_in \in VersionStrings
    /\ ver_inc = TRUE
    /\ ver_ts = <<>>
    /\ ver_out = NotRun

\* increment_version(ver_in, increment), the clock giving timestamp
IncrementVersion ==
    /\ component = "ver"
    /\ ver_out = NotRun
    /\ \E increment \in BOOLEAN, timestamp \in Timestamps :
        /\ ver_inc' = increment
        /\ ver_ts' = timestamp
        /\ ver_out' = increment_version(ver_in, increment, timestamp)
    /\ UNCHANGED <<component, guessVars, daysVars, blobVars, uriVars, dataVars, cmpVars, envVars, infoVars, ver_in>>

NextVer == IncrementVersion
SpecVer == InitVer /\ [][NextVer]_vars

(***************************************************************************)
(* Actions of component "info".                                            *)
(***************************************************************************)
InitInfo ==
    /\ component = "info"
    /\ IdleGuess
    /\ IdleDays
    /\ IdleBlob
    /\ IdleUri
    /\ IdleData
    /\ IdleCmp
    /\ IdleEnv
    /\ IdleVer
    /\ git_env \in GitEnvs
    /\ fs \in Filesystems
    /\ info_args = NoInfoArgs
    /\ git_info = GitConfig(<<>>, <<>>, <<>>)
    /\ info_ret = InfoNotRun
    /\ written = <<>>

\* get_git_config()
GetGitConfig ==
    /\ component = "info"
    /\ info_ret = InfoNotRun
    /\ git_info' = get_git_config(git_env)
    /\ info_ret' = InfoOk("get_git_config", <<>>)
    /\ UNCHANGED <<component, guessVars, daysVars, blobVars, uriVars, dataVars, cmpVars, envVars, verVars, git_env, fs,
                   info_args, written>>

\* get_infofile_content(pipeline_name, pipeline_description, experiment_name, **kwargs)
GetInfofileContent ==
    /\ component = "info"
    /\ info_ret = InfoNotRun
    /\ \E kwargs \in KwargSets, now \in Nows :
        /\ info_args' = [save_at |-> NoSaveAt, kwargs |-> kwargs]
        /\ info_ret' = InfoOk("get_infofile_content",
                              get_infofile_content(PipelineName, PipelineDescription,
                                                   ExperimentName, kwargs, git_env, now))
    /\ git_info' = get_git_config(git_env)
    /\ UNCHANGED <<component, guessVars, daysVars, blobVars, uriVars, dataVars, cmpVars, envVars, verVars, git_env, fs, written>>

\* build_infofile(pipeline_name, pipeline_description, experiment_name, save_at, **kwargs)
BuildInfofile ==
    /\ component = "info"
    /\ info_ret = InfoNotRun
    /\ \E save_at \in SaveAts, kwargs \in KwargSets, now \in Nows :
        LET r == build_infofile(PipelineName, PipelineDescription, ExperimentName,
                                save_at, kwargs, git_env, now, fs)
        IN  /\ info_args' = [save_at |-> save_at, kwargs |-> kwargs]
            /\ info_ret' = r.ret
            /\ written' = written \o r.writes
    /\ git_info' = get_git_config(git_env)
    /\ UNCHANGED <<component, guessVars, daysVars, blobVars, uriVars, dataVars, cmpVars, envVars, verVars, git_env, fs>>

NextInfo == GetGitConfig \/ GetInfofileContent \/ BuildInfofile
SpecInfo == InitInfo /\ [][NextInfo]_vars

(***************************************************************************)
(* Actions of component "guess".                                           *)
(***************************************************************************)
InitGuess ==
    /\ component = "guess"
    /\ IdleUri
    /\ IdleData
    /\ IdleCmp
    /\ IdleEnv
    /\ IdleVer
    /\ IdleInfo
    /\ IdleDays
    /\ IdleBlob
    /\ guess_arg \in GuessValues
    /\ guess_out = "not_run"

\* self.__guess_dtype(guess_arg)
GuessDtype ==
    /\ component = "guess"
    /\ guess_out = "not_run"
    /\ guess_out' = guess_dtype(guess_arg)
    /\ UNCHANGED <<component, uriVars, dataVars, cmpVars, envVars, verVars, infoVars, daysVars,
                   blobVars, guess_arg>>

NextGuess == GuessDtype
SpecGuess == InitGuess /\ [][NextGuess]_vars

(***************************************************************************)
(* Actions of component "days".                                            *)
(***************************************************************************)
InitDays ==
    /\ component = "days"
    /\ IdleUri
    /\ IdleData
    /\ IdleCmp
    /\ IdleEnv
    /\ IdleVer
    /\ IdleInfo
    /\ IdleGuess
    /\ IdleBlob
    /\ day_files \in DayListings
    /\ day_args \in DayArgs
    /\ day_out = DaysRaise("not_run")

\* get_last_n_days(path, days, freq), the glob listing day_files
GetLastNDays ==
    /\ component = "days"
    /\ day_out = DaysRaise("not_run")
    /\ day_out' = get_last_n_days(day_files, day_args.days, day_args.freq)
    /\ UNCHANGED <<component, uriVars, dataVars, cmpVars, envVars, verVars, infoVars, guessVars,
                   blobVars, day_files, day_args>>

NextDays == GetLastNDays
SpecDays == InitDays /\ [][NextDays]_vars

(***************************************************************************)
(* Actions of component "blob".                                            *)
(***************************************************************************)
InitBlob ==
    /\ component = "blob"
    /\ IdleUri
    /\ IdleData
    /\ IdleCmp
    /\ IdleEnv
    /\ IdleVer
    /\ IdleInfo
    /\ IdleGuess
    /\ IdleDays
    /\ blob_listing \in Listings
    /\ blob_before \in LocalFilesystems
    /\ blob_local = blob_before
    /\ blob_environ \in Environs
    /\ blob_call = NoBlobCall
    /\ blob_ret = BlobNotRun
    /\ blob_downloads = <<>>

\* container.download_these(blob_names, save_at, pass_if_doesnt_exist)
DownloadThese ==
    /\ component = "blob"
    /\ blob_ret = BlobNotRun
    /\ \E blob_names \in Requests, save_at \in SaveTargets, pass_if_doesnt_exist \in BOOLEAN :
        \E order \in Orders(blob_names \ missing(blob_names, blob_listing)) :
            LET r == download_these(blob_listing, blob_local, blob_names, order, save_at,
                                    pass_if_doesnt_exist)
            IN  /\ blob_call' = [NoBlobCall EXCEPT !.blob_names = blob_names, !.save_at = save_at,
                                     !.pass_if_doesnt_exist = pass_if_doesnt_exist]
                /\ blob_ret' = r.ret
                /\ blob_local' = r.files
                /\ blob_downloads' = r.downloads
    /\ UNCHANGED <<component, uriVars, dataVars, cmpVars, envVars, verVars, infoVars, guessVars,
                   daysVars, blob_listing, blob_before, blob_environ>>

\* container.download_folder(folder, save_at, keep_hierarchy)
DownloadFolder ==
    /\ component = "blob"
    /\ blob_ret = BlobNotRun
    /\ \E folder \in Folders, save_at \in SaveTargets, keep_hierarchy \in BOOLEAN :
        LET r == download_folder(blob_listing, blob_local, folder, save_at, keep_hierarchy)
        IN  /\ blob_call' = [NoBlobCall EXCEPT !.folder = folder, !.save_at = save_at,
                                 !.keep_hierarchy = keep_hierarchy]
            /\ blob_ret' = r.ret
            /\ blob_local' = r.files
            /\ blob_downloads' = r.downloads
    /\ UNCHANGED <<component, uriVars, dataVars, cmpVars, envVars, verVars, infoVars, guessVars,
                   daysVars, blob_listing, blob_before, blob_environ>>

\* LocalFileUpdater.__handle_yaml_row_dir(local_dir, "<container>:<blob_dir>",
\* only_files_in_dir, keep_onlylocals); local_dir is a directory that holds
\* files only
HandleYamlRowDir ==
    /\ component = "blob"
    /\ blob_ret = BlobNotRun
    /\ \E local_dir \in LocalDirs, blob_dir \in Folders, only_files_in_dir \in BOOLEAN,
          keep_onlylocals \in BOOLEAN :
        LET r == handle_yaml_row_dir(blob_environ, blob_listing, blob_local, local_dir, blob_dir,
                                     only_files_in_dir, keep_onlylocals)
        IN  /\ blob_call' = [NoBlobCall EXCEPT !.folder = blob_dir, !.save_at = local_dir,
                                 !.only_files_in_dir = only_files_in_dir,
                                 !.keep_onlylocals = keep_onlylocals]
            /\ blob_ret' = r.ret
            /\ blob_local' = r.files
            /\ blob_downloads' = r.downloads
    /\ UNCHANGED <<component, uriVars, dataVars, cmpVars, envVars, verVars, infoVars, guessVars,
                   daysVars, blob_listing, blob_before, blob_environ>>

NextBlob == DownloadThese \/ DownloadFolder \/ HandleYamlRowDir
SpecBlob == InitBlob /\ [][NextBlob]_vars

(***************************************************************************)
(* The whole program: any one of the components.                           *)
(***************************************************************************)
Init ==
    InitUri \/ InitData \/ InitCmp \/ InitEnv \/ InitVer \/ InitInfo \/ InitGuess \/ InitDays
    \/ InitBlob
Next ==
    NextUri \/ NextData \/ NextCmp \/ NextEnv \/ NextVer \/ NextInfo \/ NextGuess \/ NextDays
    \/ NextBlob
Spec == Init /\ [][Next]_vars

(***************************************************************************)
(* C1.  Shape of the Resolved URI.                                         *)
(***************************************************************************)
ColonCount(s) == Cardinality({i \in 1..Len(s) : s[i] = ":"})
RefStore(s) == SubSeq(s, 1, Index(s, ":") - 1)
RefPath(s) == SubSeq(s, Index(s, ":") + 1, Len(s))
StripOneSlash(p) == IF p # <<>> /\ Head(p) = "/" THEN Tail(p) ELSE p

\* 'azureml://subscriptions/<sub>/resourcegroups/<rg>/workspaces/<ws>/datastores/<store>/paths/<path>'
ExpectedUri(store, path) ==
    URI_SUBS \o ambient.subs \o URI_RG \o ambient.rg \o URI_WS \o ambient.ws
        \o URI_DS \o store \o URI_PATHS \o path

C1_Case == component = "uri" /\ ColonCount(short_uri) = 1 /\ ambient.set

\* resolving the same reference twice gives the identical result
C1_Deterministic ==
    /\ ds_prev # NotRun => ds_prev = ds_res
    /\ aml_prev # NotRun => aml_prev = aml_res

\* C1 (as stated): for every Short Reference with exactly one ':' both
\* resolvers return exactly the template filled with <store> and <path>,
\* one leading '/' of the path stripped once, and resolving twice agrees.
C1_Original ==
    C1_Case =>
        LET expected == Ok(ExpectedUri(RefStore(short_uri), StripOneSlash(RefPath(short_uri))))
        IN  /\ ds_res # NotRun => ds_res = expected
            /\ aml_res # NotRun => aml_res = expected
            /\ C1_Deterministic

\* C1 (amended): DataSchema's resolver returns exactly the template filled
\* with <store> and <path> minus one leading '/'; get_aml_uri returns the
\* template filled with store and path trimmed of surrounding whitespace,
\* the one leading '/' stripped after trimming; the two agree when store and
\* path carry no surrounding whitespace; resolving twice agrees.
C1_Amended ==
    C1_Case =>
        LET store == RefStore(short_uri)
            path == RefPath(short_uri)
        IN  /\ ds_res # NotRun => ds_res = Ok(ExpectedUri(store, StripOneSlash(path)))
            /\ aml_res # NotRun =>
                   aml_res = Ok(ExpectedUri(Strip(store), StripOneSlash(Strip(path))))
            /\ (ds_res # NotRun /\ aml_res # NotRun /\ Strip(store) = store /\ Strip(path) = path)
                   => ds_res = aml_res
            /\ C1_Deterministic

\* 'store:/p' resolved twice by both resolvers, all four results the same URI
C1_Witness ==
    /\ C1_Case
    /\ short_uri = <<"s", ":", "/", "p">>
    /\ ds_res.ok /\ ds_prev.ok /\ aml_res.ok /\ aml_prev.ok
    /\ ds_res = aml_res
    /\ ds_res.val = ExpectedUri(<<"s">>, <<"p">>)

(***************************************************************************)
(* C2.  A passed value overrides the default.                              *)
(***************************************************************************)
Converted == component = "data" /\ call.op \in {"as_input", "as_output"}

\* C2 (as stated): whenever as_input/as_output is given a value other than
\* None on a descriptor that has a default, the Input/Output it returns is
\* built from the passed value (its path is the passed value, resolved),
\* never from the default.
C2_Original ==
    (Converted /\ res.ok /\ call.value # PyNone /\ schema.default_value # PyNone)
        => res.io.path = value2uri(ambient, local_paths, call.value)

(***************************************************************************)
(* C3.  Unsupported modes.                                                 *)
(***************************************************************************)
AllowedInput == <<"ro_mount", "download", "direct", "rw_mount">>
AllowedOutput == <<"rw_mount", "upload", "direct">>

BadMode ==
    \/ call.op = "as_input" /\ call.mode \notin {"ro_mount", "download", "direct", "rw_mount"}
    \/ call.op = "as_output" /\ call.mode \notin {"rw_mount", "upload", "direct"}

NoValue == call.value = PyNone /\ schema.default_value = PyNone

\* C3 (as stated): a call with a mode outside the direction's allowed set
\* always fails with the error that names the allowed set, also when
\* neither a value nor a default is present; no Input/Output is produced.
C3_Original ==
    (Converted /\ BadMode) =>
        /\ ~res.ok /\ res.io = NoIO
        /\ res.err = "unsupported_mode"
        /\ res.allowed = (IF call.op = "as_input" THEN AllowedInput ELSE AllowedOutput)

\* C3 (amended): a call with a mode outside the direction's allowed set
\* always fails and produces no Input/Output; when a value or a default is
\* present the error names the allowed set of that direction, and when
\* neither is present the error is the "no value" error, raised first.  A
\* call with an allowed mode and a value is not rejected.
C3_Amended ==
    /\ (Converted /\ BadMode) =>
          /\ ~res.ok /\ res.io = NoIO
          /\ ~NoValue =>
                /\ res.err = "unsupported_mode"
                /\ res.allowed = (IF call.op = "as_input" THEN AllowedInput ELSE AllowedOutput)
          /\ NoValue => res.err = "no_value" /\ res.allowed = <<>>
    /\ (Converted /\ ~BadMode /\ ~NoValue) => res.ok

\* as_output rejected mode 'ro_mount' (allowed for inputs only), naming the output set
C3_Witness ==
    /\ Converted /\ call.op = "as_output" /\ call.mode = "ro_mount"
    /\ call.value = PyStr(<<"s", ":", "/", "p">>)
    /\ res.err = "unsupported_mode" /\ res.allowed = AllowedOutput

(***************************************************************************)
(* C4.  Type inference for a descriptor with no declared type.             *)
(***************************************************************************)
\* the value a conversion works on: the passed one, else the default
Effective == IF call.value # PyNone THEN call.value ELSE schema.default_value

\* C4 (as stated): a descriptor can be constructed with no declared type,
\* and converting it infers the type from the value: True -> boolean,
\* 'azureml:foo/bar.csv' -> uri_file, 'azureml:foo/bar' -> uri_folder,
\* 3.14 -> number, 7 -> integer.
C4_Original ==
    /\ (component = "data" /\ call.op = "construct" /\ call.data_type = "None") => res.ok
    /\ (Converted /\ res.ok /\ call.declared = "None") =>
          /\ Effective = PyBool(TRUE) => res.io.type = "boolean"
          /\ Effective = PyStr(V_file) => res.io.type = "uri_file"
          /\ Effective = PyStr(V_folder) => res.io.type = "uri_folder"
          /\ Effective = PyFloat(314) => res.io.type = "number"
          /\ Effective = PyInt(7) => res.io.type = "integer"

(***************************************************************************)
(* C5.  Manifest equality.                                                 *)
(***************************************************************************)
\* the set of channels of a manifest (None is no set at all)
ChannelSet(m) == [present |-> m.channels.present, set |-> SeqToSet(m.channels.items)]

\* C5 (as stated): is_equal(a, b) is true, and compare(a, b) the empty
\* diff, exactly when a and b have the same name, the same set of channels
\* and the same dependency sequence; manifests that differ only in the order
\* or duplication of channel names are equal.
C5_Original ==
    (component = "cmp" /\ cmp_equal # "none") =>
        LET same == /\ cmp_self.name = cmp_other.name
                    /\ ChannelSet(cmp_self) = ChannelSet(cmp_other)
                    /\ cmp_self.dependencies = cmp_other.dependencies
        IN  /\ (cmp_equal = "true") <=> same
            /\ (DiffLen(cmp_diff) = 0) <=> same

(***************************************************************************)
(* C6 - C10.  The reconciler.                                              *)
(***************************************************************************)
Invoked == component = "env" /\ env_ret.op = "get_create_or_update"

LatestExists ==
    /\ registry.kind = "listing"
    /\ \E i \in 1..Len(registry.envs) :
           registry.envs[i].properties = Some(<<"azureml.labels", "latest">>)

\* the first listed environment that carries the label 'latest'
TheLatest ==
    registry.envs[CHOOSE i \in 1..Len(registry.envs) :
        /\ registry.envs[i].properties = Some(<<"azureml.labels", "latest">>)
        /\ \A j \in 1..(i - 1) : registry.envs[j].properties # Some(<<"azureml.labels", "latest">>)]

Identical == LatestExists /\ TheLatest.conda_file = conda_file.raw

\* C6 (as stated): when the latest remote environment exists and its
\* manifest is identical to the local one, get_create_or_update returns that
\* remote definition itself and issues no create_or_update call.
C6_Original ==
    (Invoked /\ Identical) =>
        env_ret.ok /\ env_ret.env = TheLatest /\ pushed = <<>>

\* C6 (amended): when the latest remote environment exists, its manifest
\* is identical to the local one and that manifest passes schema validation,
\* get_create_or_update returns the remote definition itself, unchanged, and
\* issues no create_or_update call; when the identical manifest fails
\* validation it raises the validation error, still without any call.
C6_Amended ==
    /\ (Invoked /\ Identical /\ SchemaValid(conda_file.raw)) =>
          env_ret.ok /\ env_ret.env = TheLatest /\ pushed = <<>>
    /\ (Invoked /\ Identical /\ ~SchemaValid(conda_file.raw)) =>
          ~env_ret.ok /\ env_ret.err = "ValueError: not a valid conda file" /\ pushed = <<>>

\* an unchanged, valid manifest: the remote definition came back, nothing was pushed
C6_Witness ==
    /\ Invoked /\ Identical /\ SchemaValid(conda_file.raw)
    /\ env_ret.ok /\ env_ret.env = TheLatest /\ pushed = <<>> /\ listed = 1

\* no environment of that name: not-found error, empty listing, or no 'latest' entry
Absent == registry.kind = "ResourceNotFoundError" \/ (registry.kind = "listing" /\ ~LatestExists)

ArgOr(x, default) == IF x.given THEN x ELSE default

\* C7 (as stated): whenever no environment with the name is registered
\* (not-found error, empty listing, or no entry labelled 'latest'), the call
\* raises no error and issues exactly one create call for an environment
\* with that name, the local manifest, and image/description/tags from the
\* overrides or else the defaults.
C7_Original ==
    (Invoked /\ Absent) =>
        /\ env_ret.ok
        /\ Len(pushed) = 1
        /\ pushed[1].name = EnvName
        /\ pushed[1].conda_file = conda_file.raw
        /\ pushed[1].image = ArgOr(env_args.create_image,
                                 Some(<<"mcr.microsoft.com/azureml/openmpi4.1.0-ubuntu20.04:latest">>))
        /\ pushed[1].description = ArgOr(env_args.create_description,
                                 Some(<<"Environment created by DSML SDK v2: ", EnvName>>))
        /\ pushed[1].tags = ArgOr(env_args.create_tags, None)

\* both manifests pass validation and differ in name, channels or dependencies
Changed ==
    /\ LatestExists
    /\ SchemaValid(conda_file.raw) /\ SchemaValid(TheLatest.conda_file)
    /\ \/ TheLatest.conda_file.name # conda_file.raw.name
       \/ TheLatest.conda_file.channels # conda_file.raw.channels
       \/ TheLatest.conda_file.dependencies # conda_file.raw.dependencies

\* C8 (as stated, for manifests that pass validation): when the latest
\* remote environment exists and its manifest differs from the local one,
\* exactly one updated definition is pushed; its tags, properties, build
\* context, description and image (and name) are those of the latest remote
\* definition and its manifest is the local one.
C8_Original ==
    (Invoked /\ Changed) =>
        /\ Len(pushed) = 1
        /\ pushed[1].tags = TheLatest.tags
        /\ pushed[1].properties = TheLatest.properties
        /\ pushed[1].build = TheLatest.build
        /\ pushed[1].description = TheLatest.description
        /\ pushed[1].image = TheLatest.image
        /\ pushed[1].name = TheLatest.name
        /\ pushed[1].conda_file = conda_file.raw

Updated == Invoked /\ LatestExists /\ pushed # <<>>

TypedVersion == env_args.interactive /\ Strip(env_args.typed) # <<>>

AutoVersion(v) == \E ts \in Timestamps : v = Some(increment_version(TheLatest.version.val, TRUE, ts).val)

\* C9 (as stated): every updated definition pushed on the changed path
\* carries a bumped version: increment_version(latest version) in
\* non-interactive mode and on blank interactive input, and in every mode a
\* version different from the latest remote version.
C9_Original ==
    Updated =>
        /\ ~TypedVersion => AutoVersion(pushed[1].version)
        /\ pushed[1].version # TheLatest.version

\* C9 (amended): every updated definition pushed on the changed path
\* carries increment_version(latest version), which differs from the latest
\* remote version, in non-interactive mode and on blank interactive input; a
\* version typed interactively is pushed exactly as typed, and nothing keeps
\* it from being the latest remote version again.
C9_Amended ==
    Updated =>
        /\ Len(pushed) = 1
        /\ ~TypedVersion =>
              /\ AutoVersion(pushed[1].version)
              /\ pushed[1].version # TheLatest.version
        /\ TypedVersion => pushed[1].version = Some(env_args.typed)

\* a non-interactive update of version 1.2.3 pushed 1.2.4
C9_Witness ==
    /\ Updated /\ ~env_args.interactive
    /\ TheLatest.version = Some(<<"1", ".", "2", ".", "3">>)
    /\ pushed[1].version = Some(<<"1", ".", "2", ".", "4">>)

\* C10 (as stated): if the local manifest fails schema validation, the
\* call aborts with the validation error and issues no create or update
\* call, whether the environment is not found, found unchanged or found
\* changed.
C10_Original ==
    (Invoked /\ ~SchemaValid(conda_file.raw)
        /\ (registry.kind = "ResourceNotFoundError" \/ LatestExists)) =>
        /\ ~env_ret.ok
        /\ env_ret.err = "ValueError: not a valid conda file"
        /\ pushed = <<>>

(***************************************************************************)
(* C11.  A reconciler whose local manifest file does not exist cannot be   *)
(* constructed: the constructor raises, and no remote listing and no       *)
(* create_or_update call is ever made for it.                              *)
(***************************************************************************)
Constructed == component = "env" /\ env_ret.op # "none"

\* C11: when the local manifest file is missing, every state after the
\* constructor ran shows its error, no listing query and no pushed definition.
C11_Original ==
    (Constructed /\ ~conda_file.exists) =>
        /\ env_ret.op = "init"
        /\ ~env_ret.ok
        /\ env_ret.err = "ValueError: conda file not found"
        /\ ~env_obj.built
        /\ listed = 0
        /\ pushed = <<>>

C11_Witness ==
    /\ Constructed
    /\ ~conda_file.exists
    /\ registry.kind = "listing"
    /\ ~env_ret.ok

(***************************************************************************)
(* C12, C13.  increment_version.                                           *)
(***************************************************************************)
Incremented == component = "ver" /\ ver_out # NotRun

VerParts(s) == Split(s, ".")

\* major.minor.patch: exactly three components, each a run of digits
IsMajorMinorPatch(s) ==
    /\ Len(VerParts(s)) = 3
    /\ \A i \in 1..3 : IsDigitStr(VerParts(s)[i])

Step(increment) == IF increment THEN 1 ELSE -1

\* C12: a version a.b.c of non-negative integers comes back as a.b.(c+1),
\* or a.b.(c-1) when increment is false; a plain integer string n comes back
\* as str(n+1), or str(n-1) when increment is false.
C12_Original ==
    Incremented =>
        /\ IsMajorMinorPatch(ver_in) =>
              ver_out = Ok(NatToStr(DigitsToNat(VerParts(ver_in)[1])) \o <<".">>
                           \o NatToStr(DigitsToNat(VerParts(ver_in)[2])) \o <<".">>
                           \o IntToStr(DigitsToNat(VerParts(ver_in)[3]) + Step(ver_inc)))
        /\ IsDigitStr(ver_in) =>
              ver_out = Ok(IntToStr(DigitsToNat(ver_in) + Step(ver_inc)))

C12_Witness ==
    /\ Incremented
    /\ ver_in = <<"1", ".", "9", ".", "0">>
    /\ ~ver_inc
    /\ ver_out = Ok(<<"1", ".", "9", ".", "-", "1">>)

\* C13: every version string that is neither major.minor.patch nor a plain
\* integer comes back as the timestamp digits, and the call never raises.
C13_Original ==
    (Incremented /\ ~IsMajorMinorPatch(ver_in) /\ ~IsDigitStr(ver_in)) =>
        ver_out = Ok(ver_ts)

(***************************************************************************)
(* C14.  No value.                                                         *)
(***************************************************************************)
\* C14: when neither a value is passed nor a default is present, as_input
\* and as_output raise the no-value error without having taken any step of
\* the conversion: no URI resolution, no type inference, no Input/Output.
C14_Original ==
    (Converted /\ NoValue) =>
        /\ res = DataRaise("no_value", <<>>)
        /\ steps = <<>>

C14_Witness ==
    /\ Converted
    /\ NoValue
    /\ call.op = "as_output"
    /\ call.mode = "bogus"
    /\ res.err = "no_value"

(***************************************************************************)
(* C15.  Order of the value resolution rules.                              *)
(***************************************************************************)
Resolutions == {i \in 1..Len(steps) : steps[i].fn = "value2uri"}

\* a string naming an existing local file or directory; the empty path is
\* the current directory
NamesLocalPath(v) == v.t = "str" /\ (v.s = <<>> \/ v.s \in local_paths)

QualifiedUri(v) ==
    /\ v.t = "str"
    /\ \E prefix \in {P_azureml, P_https, P_http, P_wasbs, P_abfss, P_adl} :
           Len(v.s) >= Len(prefix) /\ SubSeq(v.s, 1, Len(prefix)) = prefix

\* the Short-Reference rule: the template filled with the store and the
\* path minus one leading '/'; with more than one ':' a Resolved URI still
ShortReferenceRule(v, out) ==
    /\ out.t = "str"
    /\ StartsWith(out.s, URI_SUBS)
    /\ ColonCount(v.s) = 1 =>
           out.s = ExpectedUri(RefStore(v.s), StripOneSlash(RefPath(v.s)))

\* C15: every value resolution applies, in this order: a string with a
\* qualified-URI prefix is returned unchanged; else a string containing ':'
\* is resolved by the Short-Reference rule; else a value naming an existing
\* local file or directory is returned unchanged; else the result is None.
C15_Original ==
    component = "data" =>
        \A i \in Resolutions :
            LET v == steps[i].arg
                out == steps[i].out
            IN  IF QualifiedUri(v) THEN out = v
                ELSE IF v.t = "str" /\ ColonCount(v.s) > 0 THEN ShortReferenceRule(v, out)
                ELSE IF NamesLocalPath(v) THEN out = v
                ELSE out = PyNone

\* a qualified URI holding a further ':' went through unchanged
C15_Witness ==
    /\ component = "data"
    /\ \E i \in Resolutions :
           /\ steps[i].arg = PyStr(<<"a", "d", "l", ":", "/", "/", "h", ":", "1">>)
           /\ steps[i].out = steps[i].arg

(***************************************************************************)
(* C20.  A Data Descriptor does not change once constructed.               *)
(***************************************************************************)
\* C20: no as_input or as_output call, successful or failing, changes the
\* default value, the declared type or the description of the descriptor it
\* is called on.
C20_Original ==
    [][(component = "data" /\ schema.built) => schema' = schema]_vars

\* a conversion that succeeded on a descriptor whose declared type differs
\* from what inference would give for the value
C20_Witness ==
    /\ Converted
    /\ res.ok
    /\ schema.built
    /\ schema.data_type = "integer"
    /\ res.io.path = PyStr(V_file)

(***************************************************************************)
(* C18.  The version of a created environment.                             *)
(***************************************************************************)
\* C18: when the environment is not found remotely and create_version is
\* supplied, the environment passed to create_or_update carries that version.
C18_Original ==
    (Invoked /\ registry.kind = "ResourceNotFoundError" /\ env_args.create_version.given) =>
        /\ pushed # <<>>
        /\ pushed[1].version = env_args.create_version

(***************************************************************************)
(* C19.  No retry.                                                         *)
(***************************************************************************)
\* C19: one invocation of get_create_or_update lists the remote
\* environments at most once and calls create_or_update at most once; an
\* error of the service other than not-found, raised by the listing or by
\* create_or_update, comes out of the invocation with no remote call after it.
C19_Original ==
    Invoked =>
        /\ listed <= 1
        /\ Len(pushed) <= 1
        /\ registry.kind = "HttpResponseError" =>
              /\ ~env_ret.ok /\ env_ret.err = "HttpResponseError"
              /\ listed = 1 /\ pushed = <<>>
        /\ (pushed # <<>> /\ registry.create # "ok") =>
              /\ ~env_ret.ok /\ env_ret.err = registry.create
              /\ listed = 1 /\ Len(pushed) = 1

\* an update whose create_or_update call failed: one listing, one call, the error
C19_Witness ==
    /\ Invoked /\ LatestExists
    /\ registry.create = "HttpResponseError"
    /\ Len(pushed) = 1 /\ listed = 1
    /\ env_ret.err = "HttpResponseError"

(***************************************************************************)
(* C16.  Git lookups that fail.                                            *)
(***************************************************************************)
LookupFailed == ~git_env.name.ok \/ ~git_env.email.ok \/ ~git_env.url.ok

AllUnknown == GitConfig(Unknown, Unknown, Unknown)

InfoKeys == {"pipeline_name", "pipeline_description", "experiment_name", "git", "timestamp"}

\* the document holds the five keys, its three names as passed, and the
\* git block unless the caller's kwargs replaced that key
InfoDocument(doc, block) ==
    /\ \A k \in InfoKeys : HasKey(doc, k)
    /\ Lookup(doc, "pipeline_name") = StrVal(PipelineName)
    /\ Lookup(doc, "pipeline_description") = StrVal(PipelineDescription)
    /\ Lookup(doc, "experiment_name") = StrVal(ExperimentName)
    /\ ~HasKey(info_args.kwargs, "git") => Lookup(doc, "git") = MapVal(block)

\* C16: when any of the three git lookups fails, get_git_config returns
\* 'unknown' for username, email and remote_url, and get_infofile_content
\* raises nothing and returns a document with pipeline name, description,
\* experiment name, git block and timestamp.
C16_Original ==
    (component = "info" /\ info_ret.op # "none" /\ LookupFailed) =>
        /\ git_info = AllUnknown
        /\ info_ret.op = "get_git_config" => info_ret.ok
        /\ info_ret.op = "get_infofile_content" =>
              info_ret.ok /\ InfoDocument(info_ret.doc, AllUnknown)
        /\ \A i \in 1..Len(written) : InfoDocument(written[i].content, AllUnknown)

\* the user name is configured, the email is not: the whole block is 'unknown'
C16_Witness ==
    /\ component = "info"
    /\ info_ret.op = "get_infofile_content"
    /\ git_env.name.ok /\ ~git_env.email.ok
    /\ info_args.kwargs = <<>>
    /\ Lookup(info_ret.doc, "git") = MapVal(AllUnknown)

(***************************************************************************)
(* C17.  Where the info file is written.                                   *)
(***************************************************************************)
Built == component = "info" /\ info_ret.op = "build_infofile"

\* the directory save_at names; the empty path is the current directory
SaveDir == IF info_args.save_at.val = "" THEN "." ELSE info_args.save_at.val

\* C17 (as stated): build_infofile given a save_at that does not exist or
\* is a file raises and writes no file; given an existing directory it
\* writes exactly one info file, inside that directory.
C17_Original ==
    (Built /\ info_args.save_at.given) =>
        /\ fs[SaveDir] \in {"absent", "file"} => ~info_ret.ok /\ written = <<>>
        /\ fs[SaveDir] = "dir" =>
              /\ info_ret.ok
              /\ Len(written) = 1
              /\ written[1].dir = SaveDir
              /\ written[1].name = "aml_pipeline_info.yaml"

\* C17 (amended): build_infofile given a non-empty save_at that does not
\* exist or is a file raises and writes no file; given a non-empty save_at
\* that is an existing directory it writes exactly one info file, inside
\* that directory; an empty save_at counts as not given, and like None it
\* makes it write exactly one info file in the project base directory.
C17_Amended ==
    /\ (Built /\ info_args.save_at.given /\ info_args.save_at.val # "") =>
          /\ fs[SaveDir] \in {"absent", "file"} => ~info_ret.ok /\ written = <<>>
          /\ fs[SaveDir] = "dir" =>
                /\ info_ret.ok
                /\ Len(written) = 1
                /\ written[1].dir = SaveDir
                /\ written[1].name = "aml_pipeline_info.yaml"
    /\ (Built /\ (~info_args.save_at.given \/ info_args.save_at.val = "")) =>
          /\ info_ret.ok
          /\ Len(written) = 1
          /\ written[1].dir = "BASE_DIR"
          /\ written[1].name = "aml_pipeline_info.yaml"

\* save_at names a file: the call raised and wrote nothing
C17_Witness ==
    /\ Built
    /\ info_args.save_at = Some("out")
    /\ fs["out"] = "file"
    /\ ~info_ret.ok
    /\ written = <<>>

(***************************************************************************)
(* C24.  The dependencies diff.                                            *)
(***************************************************************************)
Compared == component = "cmp" /\ cmp_equal # "none"

CommonPrefix ==
    1..(IF Len(cmp_self.dependencies) <= Len(cmp_other.dependencies)
        THEN Len(cmp_self.dependencies) ELSE Len(cmp_other.dependencies))

Differing == {i \in CommonPrefix : cmp_self.dependencies[i] # cmp_other.dependencies[i]}

PlainAt(i) == cmp_self.dependencies[i].kind = "str" /\ cmp_other.dependencies[i].kind = "str"

\* C24: two dependency lists of equal length that differ in exactly one
\* plain entry, at position i, give a dependencies diff with exactly one
\* key, item_i (0-based), holding the two entries; lists of different
\* lengths give a 'length' entry holding both lengths, and each position of
\* the common prefix that differs still has its own key.
C24_Original ==
    Compared =>
        LET d == cmp_diff.dependencies
            n1 == Len(cmp_self.dependencies)
            n2 == Len(cmp_other.dependencies)
        IN  /\ (n1 = n2 /\ Cardinality(Differing) = 1 /\ \A i \in Differing : PlainAt(i)) =>
                  /\ cmp_diff.has_dependencies
                  /\ ~d.has_length
                  /\ d.items = {[key |-> "item", pos |-> i - 1, self |-> cmp_self.dependencies[i],
                                 other |-> cmp_other.dependencies[i], set |-> {}] : i \in Differing}
            /\ n1 # n2 =>
                  /\ cmp_diff.has_dependencies
                  /\ d.has_length /\ d.length = <<n1, n2>>
                  /\ {e.pos + 1 : e \in d.items} = Differing
                  /\ \A e \in d.items : \A f \in d.items : e.pos = f.pos => e = f

\* lists of lengths 1 and 2 whose first entries differ: 'length' and item_0
C24_Witness ==
    /\ Compared
    /\ Len(cmp_self.dependencies) = 1 /\ Len(cmp_other.dependencies) = 2
    /\ cmp_diff.dependencies.has_length
    /\ \E e \in cmp_diff.dependencies.items : e.key = "item" /\ e.pos = 0

(***************************************************************************)
(* C27.  Comparison in both directions.                                    *)
(***************************************************************************)
\* the keys of a diff, those of its dependencies entry included
DiffKeys(diff) ==
    [name |-> diff.has_name, channels |-> diff.has_channels,
     dependencies |-> diff.has_dependencies, length |-> diff.dependencies.has_length,
     positions |-> {<<e.key, e.pos>> : e \in diff.dependencies.items}]

\* C27: a.is_equal(b) equals b.is_equal(a), and a.compare(b) has the keys of
\* b.compare(a), so the equality test and the reported diff of the
\* reconciler, taken in opposite directions, agree on whether there is a change.
C27_Original ==
    Compared =>
        /\ cmp_equal = cmp_rev.equal
        /\ DiffKeys(cmp_diff) = DiffKeys(cmp_rev.diff)
        /\ (cmp_equal = "false") <=> (DiffLen(cmp_rev.diff) > 0)

\* a plain entry against a pip group: a type mismatch both ways
C27_Witness ==
    /\ Compared
    /\ cmp_equal = "false" /\ cmp_rev.equal = "false"
    /\ \E e \in cmp_diff.dependencies.items :
           e.key = "type_mismatch" /\ e.self.kind = "str"
    /\ \E e \in cmp_rev.diff.dependencies.items :
           e.key = "type_mismatch" /\ e.self.kind = "PipDependencies"

(***************************************************************************)
(* C25.  Literal scalars.                                                  *)
(***************************************************************************)
ScalarTypes == {"integer", "number", "boolean", "string"}

\* a bool, int or float, or a string that is no reference (no ':')
LiteralScalar(v) ==
    \/ v.t \in {"bool", "int", "float"}
    \/ v.t = "str" /\ ColonCount(v.s) = 0

\* C25: for a descriptor whose declared type is a scalar type, a literal
\* scalar passed to as_input, or held as the default when none is passed,
\* is the value of the resulting Input, and is never replaced by None.
C25_Original ==
    (Converted /\ call.op = "as_input" /\ res.ok /\ schema.data_type \in ScalarTypes
        /\ LiteralScalar(Effective)) =>
        res.io.path = Effective

(***************************************************************************)
(* C26.  Well-formed versions stay well-formed.                            *)
(***************************************************************************)
WellFormed(s) == IsMajorMinorPatch(s) \/ IsDigitStr(s)

\* C26: for every major.minor.patch of non-negative integers and every
\* non-negative integer string, with increment true or false, the result of
\* increment_version is again of one of these two forms.
C26_Original ==
    (Incremented /\ WellFormed(ver_in)) => (ver_out.ok /\ WellFormed(ver_out.val))

(***************************************************************************)
(* C23.  Type classification.                                              *)
(***************************************************************************)
Guessed == component = "guess" /\ guess_out # "not_run"

\* the type the stated priority order gives a value
ExpectedType(v) ==
    IF v.t = "bool" THEN "boolean"
    ELSE IF QualifiedUri(v) THEN IF Contains(v.s, ".") THEN "uri_file" ELSE "uri_folder"
    ELSE IF v.t = "str" THEN "string"
    ELSE IF v.t = "float" THEN "number"
    ELSE IF v.t = "int" THEN "integer"
    ELSE "None"

\* C23: the type guessed for a value is 'boolean' for a boolean; for a
\* string with one of the six qualified-URI prefixes 'uri_file' if it
\* contains a '.' and 'uri_folder' otherwise; 'string' for any other string;
\* 'number' for a float; 'integer' for an integer; undetermined otherwise.
C23_Original == Guessed => guess_out = ExpectedType(guess_arg)

(***************************************************************************)
(* C30.  Ranking of the daily files.                                       *)
(***************************************************************************)
Ranked == component = "days" /\ day_out.ok

\* the date of a file: its year, month and day directories
DateOf(file) == <<py_int(file[1]).n, py_int(file[2]).n, py_int(file[3]).n>>

\* date x is later than date y
Later(x, y) ==
    \/ x[1] > y[1]
    \/ x[1] = y[1] /\ x[2] > y[2]
    \/ x[1] = y[1] /\ x[2] = y[2] /\ x[3] > y[3]

\* C30: in the ranking of get_last_n_days a file of a later (year, month,
\* day) is never below a file of an earlier one, and the files read are the
\* first days // freq of the ranking.
C30_Original ==
    Ranked =>
        /\ \A i, j \in 1..Len(day_out.ranking) :
               i < j => ~Later(DateOf(day_out.ranking[j]), DateOf(day_out.ranking[i]))
        /\ day_out.read = SubSeq(day_out.ranking, 1,
                                 Min(day_args.days \div day_args.freq, Len(day_out.ranking)))

(***************************************************************************)
(* C21.  download_these and absent blobs.                                  *)
(***************************************************************************)
DownloadedThese == component = "blob" /\ blob_ret.op = "download_these"

\* the requested names the container does not hold, and those it holds
AbsentNames == blob_call.blob_names \ SeqToSet(blob_listing)
PresentNames == blob_call.blob_names \cap SeqToSet(blob_listing)

\* the blobs download_blob was called on
Downloaded == {blob_downloads[i].blob : i \in 1..Len(blob_downloads)}

\* C21: download_these with pass_if_doesnt_exist false and a requested name
\* absent from the container raises FileNotFoundError with no blob
\* downloaded and no local file touched; with pass_if_doesnt_exist true it
\* never raises FileNotFoundError, downloads requested existing blobs only
\* and, when it returns, each of them exactly once.
C21_Original ==
    DownloadedThese =>
        /\ (~blob_call.pass_if_doesnt_exist /\ AbsentNames # {}) =>
               /\ blob_ret = BlobRaise("download_these", "FileNotFoundError")
               /\ blob_downloads = <<>>
               /\ blob_local = blob_before
        /\ blob_call.pass_if_doesnt_exist =>
               /\ blob_ret.err # "FileNotFoundError"
               /\ Downloaded \subseteq PresentNames
               /\ blob_ret.ok =>
                      Downloaded = PresentNames /\ Len(blob_downloads) = Cardinality(PresentNames)

\* absent names were skipped and the existing ones downloaded
C21_Witness ==
    /\ DownloadedThese
    /\ blob_call.pass_if_doesnt_exist
    /\ blob_ret.ok
    /\ AbsentNames # {}
    /\ Downloaded = PresentNames
    /\ PresentNames # {}

(***************************************************************************)
(* C22.  download_folder.                                                  *)
(***************************************************************************)
DownloadedFolder == component = "blob" /\ blob_ret.op = "download_folder"

\* the blobs of the container whose name lies under the folder
UnderFolder ==
    {b \in SeqToSet(blob_listing) :
        /\ Len(PathParts(b)) > Len(PathParts(blob_call.folder))
        /\ SubSeq(PathParts(b), 1, Len(PathParts(blob_call.folder))) = PathParts(blob_call.folder)}

\* C22: download_folder returns having downloaded exactly the blobs of the
\* container whose name lies under the folder, whatever the local
\* filesystem holds.
C22_Original == DownloadedFolder => (blob_ret.ok /\ Downloaded = UnderFolder)

(***************************************************************************)
(* C28.  download_these into a directory.                                  *)
(***************************************************************************)
\* the requested existing blobs have pairwise distinct file names
DistinctFileNames == \A x, y \in PresentNames : PathName(x) = PathName(y) => x = y

\* C28: when download_these is called with save_at that is no file and the
\* requested existing blobs have distinct file names, every blob is written
\* to save_at/<its file name>, and after the call that file holds it.
C28_Original ==
    (DownloadedThese /\ blob_ret.ok /\ ~path_is_file(blob_before, blob_call.save_at)
        /\ DistinctFileNames) =>
        /\ \A i \in 1..Len(blob_downloads) :
               blob_downloads[i].save_at
                   = PathJoin(blob_call.save_at, PathName(blob_downloads[i].blob))
        /\ \A b \in PresentNames :
               LocalFile(PathJoin(blob_call.save_at, PathName(b)), b) \in blob_local

(***************************************************************************)
(* C29.  A directory row without the SAS url.                              *)
(***************************************************************************)
HandledDirRow == component = "blob" /\ blob_ret.op = "handle_yaml_row_dir"

\* C29: a directory row with only_files_in_dir and keep_onlylocals both
\* false, handled while the SAS url variable of the container is not set,
\* raises ValueError and leaves every local file in place.
C29_Original ==
    (HandledDirRow /\ ~blob_call.only_files_in_dir /\ ~blob_call.keep_onlylocals
        /\ ~blob_environ.sas_url) =>
        (blob_ret.err = "ValueError" /\ blob_local = blob_before)

====
